---- MODULE Spec2Model ----
(***************************************************************************)
(* Model of the bank-statement processor: the span grouper, the card-style *)
(* and account-style row mergers/extractors, the normalizer and the two    *)
(* classifier implementations (bank_statement_processor and rbc2).         *)
(*                                                                         *)
(* Coordinates are floats in the source; the model uses integer units.     *)
(* Money is held in integer cents.  Similarity scores (0..100, floats in   *)
(* the source) are held in half points, so 159 stands for 79.5.            *)
(***************************************************************************)
EXTENDS Integers, Sequences, FiniteSets, TLC

VARIABLES
    pc,             \* which operation has run in the component at hand 
    spans,          \* group_spans_by_row: the input list of spans
    rows,           \* group_spans_by_row: the returned list of rows
    doc,            \* extract: the pages of the document, each a list of spans
    period,         \* extract: start_date and end_date of the statement
    transactions,   \* extract: the records emitted so far
    normalized,     \* normalize_csv: the rows of the normalized table
    category_training,          \* Classifier._category_training
    category_amount_training,   \* Classifier._category_amount_training
    category_lookup,            \* rbc2 Classifier._category_lookup
    category_clusters,          \* rbc2 Classifier._category_clusters
    result,         \* the answer of the last get_category call
    calls           \* the training rows given to set_category so far

vars == <<pc, spans, rows, doc, period, transactions, normalized,
          category_training, category_amount_training, category_lookup,
          category_clusters, result, calls>>
groupVars == <<spans, rows>>
extractVars == <<doc, period, transactions>>
clsVars == <<category_training, category_amount_training, category_lookup,
             category_clusters, result, calls>>

(***************************************************************************)
(* Generic helpers                                                         *)
(***************************************************************************)
Abs(n) == IF n < 0 THEN -n ELSE n

SeqsUpTo(S, n) == UNION {[1..k -> S] : k \in 0..n}

Max(S) == CHOOSE x \in S : \A y \in S : y <= x
Min(S) == CHOOSE x \in S : \A y \in S : x <= y

RECURSIVE Flatten(_)
Flatten(ss) == IF ss = <<>> THEN <<>> ELSE Head(ss) \o Flatten(Tail(ss))

Count(e, s) == Cardinality({i \in DOMAIN s : s[i] = e})

(***************************************************************************)
(* Python's list.sort(key=...) is stable: an insertion sort that puts an   *)
(* element after every element whose key is not greater.                   *)
(***************************************************************************)
RECURSIVE InsertByX(_, _)
InsertByX(sorted, s) ==
    IF sorted = <<>> THEN <<s>>
    ELSE IF Head(sorted).x <= s.x
         THEN <<Head(sorted)>> \o InsertByX(Tail(sorted), s)
         ELSE <<s>> \o sorted

RECURSIVE SortByX(_)
SortByX(row) ==
    IF row = <<>> THEN <<>>
    ELSE InsertByX(SortByX(SubSeq(row, 1, Len(row) - 1)), row[Len(row)])

YXLessEq(a, b) == a.y < b.y \/ (a.y = b.y /\ a.x <= b.x)

RECURSIVE InsertByYX(_, _)
InsertByYX(sorted, s) ==
    IF sorted = <<>> THEN <<s>>
    ELSE IF YXLessEq(Head(sorted), s)
         THEN <<Head(sorted)>> \o InsertByYX(Tail(sorted), s)
         ELSE <<s>> \o sorted

RECURSIVE SortByYX(_)
SortByYX(all_spans) ==
    IF all_spans = <<>> THEN <<>>
    ELSE InsertByYX(SortByYX(SubSeq(all_spans, 1, Len(all_spans) - 1)),
                    all_spans[Len(all_spans)])

(***************************************************************************)
(* Text.  A text is a string; the regular expressions of the source are    *)
(* evaluated character by character.  A position is an index into the      *)
(* string; a matcher returns the position after what it matched, 0 when    *)
(* it does not match.                                                      *)
(***************************************************************************)
Ch(s, i) == SubSeq(s, i, i)

Digits == {"0", "1", "2", "3", "4", "5", "6", "7", "8", "9"}
UpperLetters == "ABCDEFGHIJKLMNOPQRSTUVWXYZ"
LowerLetters == "abcdefghijklmnopqrstuvwxyz"
UpperSet == {Ch(UpperLetters, i) : i \in 1..26}
LowerSet == {Ch(LowerLetters, i) : i \in 1..26}
Letters == UpperSet \cup LowerSet
Spaces == {" ", "\t", "\n"}

UpperMap == [c \in LowerSet |->
                Ch(UpperLetters, CHOOSE i \in 1..26 : Ch(LowerLetters, i) = c)]
LowerMap == [c \in UpperSet |->
                Ch(LowerLetters, CHOOSE i \in 1..26 : Ch(UpperLetters, i) = c)]

UpperChar(c) == IF c \in LowerSet THEN UpperMap[c] ELSE c
LowerChar(c) == IF c \in UpperSet THEN LowerMap[c] ELSE c

\* str.upper() and str.lower()
RECURSIVE Upper(_)
Upper(s) == IF Len(s) = 0 THEN ""
            ELSE UpperChar(Ch(s, 1)) \o Upper(SubSeq(s, 2, Len(s)))

RECURSIVE Lower(_)
Lower(s) == IF Len(s) = 0 THEN ""
            ELSE LowerChar(Ch(s, 1)) \o Lower(SubSeq(s, 2, Len(s)))

\* The first position from i on whose character is not in class.
RECURSIVE SkipWhile(_, _, _)
SkipWhile(s, i, class) ==
    IF i <= Len(s) /\ Ch(s, i) \in class THEN SkipWhile(s, i + 1, class) ELSE i

\* class*  and  class+  and  class{k}  at position i (greedy)
Star(s, i, class) == IF i = 0 THEN 0 ELSE SkipWhile(s, i, class)
Plus(s, i, class) ==
    IF i = 0 THEN 0
    ELSE LET j == SkipWhile(s, i, class) IN IF j > i THEN j ELSE 0
Exactly(s, i, class, k) ==
    IF i = 0 \/ i + k - 1 > Len(s) THEN 0
    ELSE IF \A m \in i..(i + k - 1) : Ch(s, m) \in class THEN i + k ELSE 0

\* A literal at position i; lit is given in upper case for LitAtCI.
LitAt(s, i, lit) ==
    IF i = 0 \/ i + Len(lit) - 1 > Len(s) THEN 0
    ELSE IF SubSeq(s, i, i + Len(lit) - 1) = lit THEN i + Len(lit) ELSE 0
LitAtCI(s, i, lit) ==
    IF i = 0 \/ i + Len(lit) - 1 > Len(s) THEN 0
    ELSE IF UpperChar(Ch(s, i)) = Ch(lit, 1)
            /\ Upper(SubSeq(s, i, i + Len(lit) - 1)) = lit
         THEN i + Len(lit) ELSE 0

\* lit in s  and  lit in s.upper()
Contains(s, lit) == \E p \in 1..Len(s) : LitAt(s, p, lit) # 0
ContainsCI(s, lit) == \E p \in 1..Len(s) : LitAtCI(s, p, lit) # 0

\* str.strip()
RECURSIVE StripRight(_)
StripRight(s) ==
    IF Len(s) > 0 /\ Ch(s, Len(s)) \in Spaces
    THEN StripRight(SubSeq(s, 1, Len(s) - 1)) ELSE s
Strip(s) == LET j == SkipWhile(s, 1, Spaces) IN StripRight(SubSeq(s, j, Len(s)))

\* " ".join(parts)
RECURSIVE JoinSp(_)
JoinSp(parts) ==
    IF parts = <<>> THEN ""
    ELSE IF Len(parts) = 1 THEN parts[1]
    ELSE parts[1] \o " " \o JoinSp(Tail(parts))

\* The decimal number written by a string of digits.
DigitVal(c) == CHOOSE v \in 0..9 : Ch("0123456789", v + 1) = c
RECURSIVE DigitsToInt(_)
DigitsToInt(s) ==
    IF Len(s) = 0 THEN 0
    ELSE 10 * DigitsToInt(SubSeq(s, 1, Len(s) - 1)) + DigitVal(Ch(s, Len(s)))

\* s with every character of class removed (str.replace(c, ""))
RECURSIVE Remove(_, _)
Remove(s, class) ==
    IF Len(s) = 0 THEN ""
    ELSE (IF Ch(s, 1) \in class THEN "" ELSE Ch(s, 1))
         \o Remove(SubSeq(s, 2, Len(s)), class)

\* s with every character outside class removed (re.sub of a negated class)
RECURSIVE Keep(_, _)
Keep(s, class) ==
    IF Len(s) = 0 THEN ""
    ELSE (IF Ch(s, 1) \in class THEN Ch(s, 1) ELSE "")
         \o Keep(SubSeq(s, 2, Len(s)), class)

(***************************************************************************)
(* Dates (datetime): a record of year, month, day.                         *)
(***************************************************************************)
Date(y, m, d) == [year |-> y, month |-> m, day |-> d]

IsLeap(y) == (y % 4 = 0 /\ y % 100 # 0) \/ y % 400 = 0

DaysInMonth(y, m) ==
    IF m = 2 THEN (IF IsLeap(y) THEN 29 ELSE 28)
    ELSE IF m \in {4, 6, 9, 11} THEN 30 ELSE 31

\* datetime(y, m, d) raises ValueError unless this holds.
ValidDate(y, m, d) == m \in 1..12 /\ d >= 1 /\ d <= DaysInMonth(y, m)

DateLess(a, b) ==
    \/ a.year < b.year
    \/ a.year = b.year /\ a.month < b.month
    \/ a.year = b.year /\ a.month = b.month /\ a.day < b.day

\* Days since 1970-01-01 of a date of the proleptic Gregorian calendar, and back.
DaysFromCivil(dt) ==
    LET y   == IF dt.month <= 2 THEN dt.year - 1 ELSE dt.year
        era == y \div 400
        yoe == y - era * 400
        mp  == IF dt.month > 2 THEN dt.month - 3 ELSE dt.month + 9
        doy == (153 * mp + 2) \div 5 + dt.day - 1
        doe == yoe * 365 + yoe \div 4 - yoe \div 100 + doy
    IN  era * 146097 + doe - 719468

CivilFromDays(n) ==
    LET z   == n + 719468
        era == z \div 146097
        doe == z - era * 146097
        yoe == (doe - doe \div 1460 + doe \div 36524 - doe \div 146096) \div 365
        doy == doe - (365 * yoe + yoe \div 4 - yoe \div 100)
        mp  == (5 * doy + 2) \div 153
        d   == doy - (153 * mp + 2) \div 5 + 1
        m   == IF mp < 10 THEN mp + 3 ELSE mp - 9
        y   == yoe + era * 400
    IN  Date(IF m <= 2 THEN y + 1 ELSE y, m, d)

\* date - timedelta(days=k)
MinusDays(dt, k) == CivilFromDays(DaysFromCivil(dt) - k)

MonthNames == <<"JAN", "FEB", "MAR", "APR", "MAY", "JUN",
                "JUL", "AUG", "SEP", "OCT", "NOV", "DEC">>
MonthAbbrs == {MonthNames[i] : i \in 1..12}
\* datetime.strptime(month_str, "%b").month (the match is case-insensitive)
MonthNumber(abbr) == CHOOSE i \in 1..12 : MonthNames[i] = Upper(abbr)

(***************************************************************************)
(* group_spans_by_row (identical in both packages)                         *)
(***************************************************************************)
Y_TOLERANCE == 3

MaxSpans == 3
MaxY == 7
XValues == {0, 1}

GroupSpan == [text : {"t"}, x : XValues, y : 0..MaxY]

\* A variant that forgets to flush the row still open when the input ends.
RECURSIVE GroupLoopNoFlush(_, _, _, _, _, _)
GroupLoopNoFlush(in, i, out, current_row, current_y, y_tolerance) ==
    IF i > Len(in) THEN out
    ELSE IF Abs(in[i].y - current_y) <= y_tolerance
         THEN GroupLoopNoFlush(in, i + 1, out, Append(current_row, in[i]),
                               current_y, y_tolerance)
         ELSE GroupLoopNoFlush(in, i + 1, Append(out, SortByX(current_row)),
                               <<in[i]>>, in[i].y, y_tolerance)

group_spans_by_row_noflush(in, y_tolerance) ==
    IF in = <<>> THEN <<>>
    ELSE GroupLoopNoFlush(in, 2, <<>>, <<in[1]>>, in[1].y, y_tolerance)

\* A variant whose reference Y follows the last span added (a running
\* reference) and which leaves rows in arrival order.
RECURSIVE GroupLoopRunning(_, _, _, _, _, _)
GroupLoopRunning(in, i, out, current_row, current_y, y_tolerance) ==
    IF i > Len(in) THEN Append(out, SortByX(current_row))
    ELSE IF Abs(in[i].y - current_y) <= y_tolerance
         THEN GroupLoopRunning(in, i + 1, out, Append(current_row, in[i]),
                               in[i].y, y_tolerance)
         ELSE GroupLoopRunning(in, i + 1, Append(out, SortByX(current_row)),
                               <<in[i]>>, in[i].y, y_tolerance)

group_spans_by_row_running(in, y_tolerance) ==
    IF in = <<>> THEN <<>>
    ELSE GroupLoopRunning(in, 2, <<>>, <<in[1]>>, in[1].y, y_tolerance)

\* The for-loop over spans[1:], then the flush of the last row.
RECURSIVE GroupLoop(_, _, _, _, _, _)
GroupLoop(in, i, out, current_row, current_y, y_tolerance) ==
    IF i > Len(in)
    THEN IF current_row # <<>> THEN Append(out, SortByX(current_row)) ELSE out
    ELSE IF Abs(in[i].y - current_y) <= y_tolerance
         THEN GroupLoop(in, i + 1, out, Append(current_row, in[i]),
                        current_y, y_tolerance)
         ELSE GroupLoop(in, i + 1, Append(out, SortByX(current_row)),
                        <<in[i]>>, in[i].y, y_tolerance)

group_spans_by_row(in, y_tolerance) ==
    IF in = <<>> THEN <<>>
    ELSE GroupLoop(in, 2, <<>>, <<in[1]>>, in[1].y, y_tolerance)

(***************************************************************************)
(* bank_statement_processor: VisaStatementExtractor                        *)
(***************************************************************************)
RowTexts(row) == [i \in DOMAIN row |-> row[i].text]
RowText(row) == JoinSp(RowTexts(row))

\* TRANSACTION_DATE_REGEX  ^(JAN|...|DEC)[-\s]*(\d{1,2})$  (IGNORECASE)
Visa_TRANSACTION_DATE_REGEX(t) ==
    LET n == Len(t)
        j == SkipWhile(t, 4, {"-"} \cup Spaces)
    IN  /\ n >= 4
        /\ Upper(SubSeq(t, 1, 3)) \in MonthAbbrs
        /\ n - j + 1 \in {1, 2}
        /\ \A k \in j..n : Ch(t, k) \in Digits

\* AMOUNT_REGEX  ^[-]?\$?[\d,]+\.\d{2}$
Visa_AMOUNT_REGEX(t) ==
    LET n == Len(t)
        a == IF n >= 1 /\ Ch(t, 1) = "-" THEN 2 ELSE 1
        b == IF a <= n /\ Ch(t, a) = "$" THEN a + 1 ELSE a
        c == SkipWhile(t, b, Digits \cup {","})
    IN  /\ c > b
        /\ c + 2 = n
        /\ Ch(t, c) = "."
        /\ Ch(t, c + 1) \in Digits
        /\ Ch(t, c + 2) \in Digits

\* NUMERIC_ONLY_REGEX  ^\d+$
NUMERIC_ONLY_REGEX(t) == Len(t) >= 1 /\ \A k \in 1..Len(t) : Ch(t, k) \in Digits

\* CARD_NUMBER_SECTION_REGEX  \d{4}\s+\d{2}\*{2}\s+\*{4}\s+\d{4}  (search)
CardNumberAt(t, p) ==
    LET a == Plus(t, Exactly(t, p, Digits, 4), Spaces)
        b == Plus(t, LitAt(t, Exactly(t, a, Digits, 2), "**"), Spaces)
        c == Plus(t, LitAt(t, b, "****"), Spaces)
    IN  Exactly(t, c, Digits, 4)
CARD_NUMBER_SECTION_REGEX(t) == \E p \in 1..Len(t) : CardNumberAt(t, p) # 0

\* CURRENCY_INFO_REGEX (search):
\*   Foreign\s+Currency\s*-\s*([A-Z]{3})\s+([\d,]+\.\d{2})\s+Exchange\s+rate\s*-\s*([\d.]+)
\* ci says whether the pattern is compiled with IGNORECASE.  The result holds
\* the three groups, or ok = FALSE.
CurrencyAt(t, p, ci) ==
    LET Lit(i, l) == IF ci THEN LitAtCI(t, i, l) ELSE LitAt(t, i, l)
        W(l)  == IF ci THEN Upper(l) ELSE l
        a  == Plus(t, Lit(p, W("Foreign")), Spaces)
        b  == Star(t, Lit(a, W("Currency")), Spaces)
        g1 == Star(t, LitAt(t, b, "-"), Spaces)
        c  == Exactly(t, g1, IF ci THEN Letters ELSE UpperSet, 3)
        g2 == Plus(t, c, Spaces)
        d  == Plus(t, g2, Digits \cup {","})
        e  == Exactly(t, LitAt(t, d, "."), Digits, 2)
        f  == Plus(t, Lit(Plus(t, e, Spaces), W("Exchange")), Spaces)
        g  == Star(t, Lit(f, W("rate")), Spaces)
        g3 == Star(t, LitAt(t, g, "-"), Spaces)
        h  == Plus(t, g3, Digits \cup {"."})
    IN  IF h = 0 THEN [ok |-> FALSE]
        ELSE [ok |-> TRUE,
              currency_code |-> SubSeq(t, g1, c - 1),
              foreign_amount |-> SubSeq(t, g2, e - 1),
              exchange_rate |-> SubSeq(t, g3, h - 1)]

CurrencySearch(t, ci) ==
    LET starts == {p \in 1..Len(t) :
                     UpperChar(Ch(t, p)) = "F" /\ CurrencyAt(t, p, ci).ok}
    IN  IF starts = {} THEN [ok |-> FALSE]
        ELSE CurrencyAt(t, CHOOSE p \in starts : \A q \in starts : p <= q, ci)

Visa_CURRENCY_INFO_REGEX(t) == CurrencySearch(t, TRUE)

\* SECOND_DATE_REGEX  ^([A-Z]{3}\s*\d{1,2})(?:\s+(.*))?$  applied to u, an
\* upper-cased text.  group2 is "" when the optional part is absent or empty.
SECOND_DATE_REGEX(u) ==
    LET n  == Len(u)
        a  == Star(u, Exactly(u, 1, UpperSet, 3), Spaces)
        d2 == Exactly(u, a, Digits, 2)
        d1 == Exactly(u, a, Digits, 1)
        Rest(i) == i = n + 1 \/ (i # 0 /\ Plus(u, i, Spaces) # 0)
        e  == IF d2 # 0 /\ Rest(d2) THEN d2
              ELSE IF d1 # 0 /\ Rest(d1) THEN d1 ELSE 0
    IN  IF e = 0 THEN [ok |-> FALSE]
        ELSE [ok |-> TRUE,
              group1 |-> SubSeq(u, 1, e - 1),
              group2 |-> SubSeq(u, SkipWhile(u, e, Spaces), n)]

\* AMOUNT_CLEAN_REGEX.sub("", last_text), then float(amount): the value in
\* cents of a text that matched AMOUNT_REGEX.
AmountCents(t) ==
    LET clean == Keep(t, Digits \cup {".", "-"})
        neg   == Len(clean) >= 1 /\ Ch(clean, 1) = "-"
        mag   == DigitsToInt(Keep(clean, Digits))
    IN  IF neg THEN -mag ELSE mag

Visa_parse_date_start_year(date_str, start_date, end_date) ==
    LET ds    == Upper(Remove(date_str, {" "}))
        j     == SkipWhile(ds, 4, {"-"} \cup Spaces)
        month == MonthNumber(SubSeq(ds, 1, 3))
        day   == DigitsToInt(SubSeq(ds, j, Len(ds)))
    IN  IF ~Visa_TRANSACTION_DATE_REGEX(ds) THEN [tag |-> "str", str |-> ds]
        ELSE IF ~ValidDate(start_date.year, month, day) THEN [tag |-> "raise"]
        ELSE [tag |-> "date", date |-> Date(start_date.year, month, day)]

\* _parse_date: [tag |-> "date", date |-> ...], [tag |-> "str", str |-> ...]
\* when the text does not match, or [tag |-> "raise"] when datetime() rejects
\* the day of the month.
Visa_parse_date(date_str, start_date, end_date) ==
    LET ds    == Upper(Remove(date_str, {" "}))
        j     == SkipWhile(ds, 4, {"-"} \cup Spaces)
        month == MonthNumber(SubSeq(ds, 1, 3))
        day   == DigitsToInt(SubSeq(ds, j, Len(ds)))
    IN  IF ~Visa_TRANSACTION_DATE_REGEX(ds) THEN [tag |-> "str", str |-> ds]
        ELSE IF ~ValidDate(start_date.year, month, day) THEN [tag |-> "raise"]
        ELSE IF DateLess(Date(start_date.year, month, day), start_date)
             THEN IF ~ValidDate(end_date.year, month, day) THEN [tag |-> "raise"]
                  ELSE [tag |-> "date", date |-> Date(end_date.year, month, day)]
             ELSE [tag |-> "date", date |-> Date(start_date.year, month, day)]

\* Spans of the transaction table: non-empty text, left of x = 380.
VISA_TABLE_RIGHT == 380
Visa_collect_spans(page) ==
    SelectSeq(page, LAMBDA sp : sp.text # "" /\ sp.x < VISA_TABLE_RIGHT)

MAX_MERGE_GAP == 15

Visa_has_start_date(row) == Len(row) > 0 /\ Visa_TRANSACTION_DATE_REGEX(row[1].text)
Visa_has_end_amount(row) == Len(row) > 0 /\ Visa_AMOUNT_REGEX(row[Len(row)].text)

\* A look-ahead loop that never looks at the vertical distance.
RECURSIVE Visa_merge_lookahead_no_gap(_, _, _)
Visa_merge_lookahead_no_gap(rs, i, current_row) ==
    IF ~(i + 1 <= Len(rs)) THEN [i |-> i, row |-> current_row]
    ELSE LET next_row  == rs[i + 1]
             next_text == RowText(next_row)
         IN  IF Visa_has_start_date(next_row) \/ Visa_has_end_amount(next_row)
             THEN [i |-> i, row |-> current_row]
             ELSE IF ContainsCI(next_text, "TRANSACTION") \/ ContainsCI(next_text, "POSTING")
             THEN [i |-> i, row |-> current_row]
             ELSE IF NUMERIC_ONLY_REGEX(Strip(next_text))
             THEN Visa_merge_lookahead_no_gap(rs, i + 1, current_row)
             ELSE Visa_merge_lookahead_no_gap(rs, i + 1,
                      SubSeq(current_row, 1, Len(current_row) - 1) \o next_row
                      \o <<current_row[Len(current_row)]>>)

\* The look-ahead loop of the merge pass, entered with a transaction head in
\* current_row at index i.  Returns the index of the last row consumed and the
\* merged row.
RECURSIVE Visa_merge_lookahead(_, _, _)
Visa_merge_lookahead(rs, i, current_row) ==
    IF ~(i + 1 <= Len(rs)) THEN [i |-> i, row |-> current_row]
    ELSE LET next_row  == rs[i + 1]
             next_text == RowText(next_row)
         IN  IF Visa_has_start_date(next_row) \/ Visa_has_end_amount(next_row)
             THEN [i |-> i, row |-> current_row]
             ELSE IF ContainsCI(next_text, "TRANSACTION") \/ ContainsCI(next_text, "POSTING")
             THEN [i |-> i, row |-> current_row]
             ELSE IF NUMERIC_ONLY_REGEX(Strip(next_text))
             THEN Visa_merge_lookahead(rs, i + 1, current_row)
             ELSE IF /\ Len(current_row) > 0 /\ Len(next_row) > 0
                     /\ Abs(next_row[1].y - current_row[Len(current_row)].y) > MAX_MERGE_GAP
             THEN [i |-> i, row |-> current_row]
             ELSE Visa_merge_lookahead(rs, i + 1,
                      SubSeq(current_row, 1, Len(current_row) - 1) \o next_row
                      \o <<current_row[Len(current_row)]>>)

\* A merge pass that goes on with the row after the head, whatever the
\* look-ahead consumed.
RECURSIVE Visa_merge_rows_rescan(_, _, _)
Visa_merge_rows_rescan(rs, i, merged_rows) ==
    IF ~(i <= Len(rs)) THEN merged_rows
    ELSE IF Visa_has_start_date(rs[i]) /\ Visa_has_end_amount(rs[i])
         THEN Visa_merge_rows_rescan(rs, i + 1,
                  Append(merged_rows, Visa_merge_lookahead(rs, i, rs[i]).row))
         ELSE Visa_merge_rows_rescan(rs, i + 1, Append(merged_rows, rs[i]))

\* The merge pass: while i < len(rows).
RECURSIVE Visa_merge_rows(_, _, _)
Visa_merge_rows(rs, i, merged_rows) ==
    IF ~(i <= Len(rs)) THEN merged_rows
    ELSE IF Visa_has_start_date(rs[i]) /\ Visa_has_end_amount(rs[i])
         THEN LET m == Visa_merge_lookahead(rs, i, rs[i])
              IN  Visa_merge_rows(rs, m.i + 1, Append(merged_rows, m.row))
         ELSE Visa_merge_rows(rs, i + 1, Append(merged_rows, rs[i]))

Visa_is_header(row_text) ==
    \/ ContainsCI(row_text, "TRANSACTION") \/ ContainsCI(row_text, "POSTING")
    \/ ContainsCI(row_text, "ACTIVITY DESCRIPTION")
    \/ ContainsCI(row_text, "SUBTOTAL") \/ ContainsCI(row_text, "MONTHLY ACTIVITY")

\* The description of a transaction row whose second span matched.
Visa_description(row_spans, second) ==
    LET middle == [k \in 1..(Len(row_spans) - 3) |-> row_spans[k + 2].text]
    IN  IF second.group2 # ""
        THEN JoinSp(<<Strip(SubSeq(row_spans[2].text, Len(second.group1) + 1,
                                   Len(row_spans[2].text)))>> \o middle)
        ELSE JoinSp(middle)

Raised == [raised |-> TRUE, txs |-> <<>>]
Emitted(txs) == [raised |-> FALSE, txs |-> txs]

\* An iteration that tests the number of spans before the annotation.
Visa_parse_row_short_first(txs, row_spans, start_date, end_date) ==
    LET row_text == RowText(row_spans)
        cm       == Visa_CURRENCY_INFO_REGEX(row_text)
        second   == SECOND_DATE_REGEX(Upper(row_spans[2].text))
        trans    == Visa_parse_date(row_spans[1].text, start_date, end_date)
        post     == Visa_parse_date(second.group1, start_date, end_date)
    IN  IF Len(row_spans) < 3 THEN Emitted(txs)
        ELSE IF cm.ok
        THEN IF txs # <<>>
             THEN Emitted([txs EXCEPT ![Len(txs)].description =
                      @ \o " (" \o cm.foreign_amount \o " " \o cm.currency_code
                        \o " @" \o cm.exchange_rate \o ")"])
             ELSE Emitted(txs)
        ELSE IF CARD_NUMBER_SECTION_REGEX(row_text) THEN Emitted(txs)
        ELSE IF Visa_is_header(row_text) THEN Emitted(txs)
        ELSE IF ~Visa_TRANSACTION_DATE_REGEX(row_spans[1].text) THEN Emitted(txs)
        ELSE IF ~Visa_AMOUNT_REGEX(row_spans[Len(row_spans)].text) THEN Emitted(txs)
        ELSE IF ~second.ok THEN Emitted(txs)
        ELSE IF trans.tag = "raise" \/ post.tag = "raise" THEN Raised
        ELSE Emitted(Append(txs,
                 [transaction_date |-> trans,
                  posting_date |-> post,
                  description |-> Visa_description(row_spans, second),
                  amount |-> AmountCents(row_spans[Len(row_spans)].text) * (-1)]))

\* One iteration of "for row_spans in rows": the list of records after the row,
\* or Raised when _parse_date raises.
Visa_parse_row(txs, row_spans, start_date, end_date) ==
    LET row_text == RowText(row_spans)
        cm       == Visa_CURRENCY_INFO_REGEX(row_text)
        second   == SECOND_DATE_REGEX(Upper(row_spans[2].text))
        trans    == Visa_parse_date(row_spans[1].text, start_date, end_date)
        post     == Visa_parse_date(second.group1, start_date, end_date)
    IN  IF cm.ok
        THEN IF txs # <<>>
             THEN Emitted([txs EXCEPT ![Len(txs)].description =
                      @ \o " (" \o cm.foreign_amount \o " " \o cm.currency_code
                        \o " @" \o cm.exchange_rate \o ")"])
             ELSE Emitted(txs)
        ELSE IF Len(row_spans) < 3 THEN Emitted(txs)
        ELSE IF CARD_NUMBER_SECTION_REGEX(row_text) THEN Emitted(txs)
        ELSE IF Visa_is_header(row_text) THEN Emitted(txs)
        ELSE IF ~Visa_TRANSACTION_DATE_REGEX(row_spans[1].text) THEN Emitted(txs)
        ELSE IF ~Visa_AMOUNT_REGEX(row_spans[Len(row_spans)].text) THEN Emitted(txs)
        ELSE IF ~second.ok THEN Emitted(txs)
        ELSE IF trans.tag = "raise" \/ post.tag = "raise" THEN Raised
        ELSE Emitted(Append(txs,
                 [transaction_date |-> trans,
                  posting_date |-> post,
                  description |-> Visa_description(row_spans, second),
                  amount |-> AmountCents(row_spans[Len(row_spans)].text) * (-1)]))

RECURSIVE Visa_parse_rows(_, _, _, _, _)
Visa_parse_rows(acc, rs, k, start_date, end_date) ==
    IF acc.raised \/ k > Len(rs) THEN acc
    ELSE Visa_parse_rows(Visa_parse_row(acc.txs, rs[k], start_date, end_date),
                         rs, k + 1, start_date, end_date)

\* The body of "for page in pdf_doc" for one page.
Visa_extract_page(txs, page, start_date, end_date) ==
    LET all_spans == SortByYX(Visa_collect_spans(page))
        grouped   == group_spans_by_row(all_spans, Y_TOLERANCE)
        merged    == Visa_merge_rows(grouped, 1, <<>>)
    IN  Visa_parse_rows(Emitted(txs), merged, 1, start_date, end_date)

RECURSIVE Visa_extract_pages(_, _, _, _, _)
Visa_extract_pages(acc, pdf_doc, k, start_date, end_date) ==
    IF acc.raised \/ k > Len(pdf_doc) THEN acc
    ELSE Visa_extract_pages(Visa_extract_page(acc.txs, pdf_doc[k], start_date, end_date),
                            pdf_doc, k + 1, start_date, end_date)

POSTING_SKEW_DAYS == 30

\* extract(pdf_doc, start_date, end_date): the records, or Raised.  The last
\* step converts the date columns (pd.to_datetime), which fails on a date that
\* _parse_date left as text.
Visa_extract(pdf_doc, start_date, end_date) ==
    LET acc == Visa_extract_pages(Emitted(<<>>), pdf_doc, 1,
                                  MinusDays(start_date, POSTING_SKEW_DAYS), end_date)
    IN  IF acc.raised THEN Raised
        ELSE IF \E k \in DOMAIN acc.txs : acc.txs[k].transaction_date.tag = "str"
                                          \/ acc.txs[k].posting_date.tag = "str"
        THEN Raised
        ELSE acc

(***************************************************************************)
(* bank_statement_processor: ChequingSavingsStatementExtractor             *)
(***************************************************************************)
\* TRANSACTION_DATE_REGEX  (\d{1,2})\s*(JAN|...|DEC)  (IGNORECASE, match):
\* the position of the month when the day takes k digits, 0 when it fails.
Chq_date_at(t, k) ==
    LET a == Exactly(t, 1, Digits, k)
        b == Star(t, a, Spaces)
    IN  IF b # 0 /\ b + 2 <= Len(t) /\ Upper(SubSeq(t, b, b + 2)) \in MonthAbbrs
        THEN b ELSE 0

Chq_date_groups(t, k, b) ==
    IF b = 0 THEN [ok |-> FALSE, day |-> "", month_str |-> ""]
    ELSE [ok |-> TRUE, day |-> SubSeq(t, 1, k), month_str |-> SubSeq(t, b, b + 2)]

Chq_TRANSACTION_DATE_REGEX(t) ==
    IF Chq_date_at(t, 2) # 0 THEN Chq_date_groups(t, 2, Chq_date_at(t, 2))
    ELSE Chq_date_groups(t, 1, Chq_date_at(t, 1))

\* AMOUNT_REGEX  ^[\d,]+\.\d{2}$
Chq_AMOUNT_REGEX(t) ==
    LET n == Len(t)
        c == SkipWhile(t, 1, Digits \cup {","})
    IN  /\ c > 1
        /\ c + 2 = n
        /\ Ch(t, c) = "."
        /\ Ch(t, c + 1) \in Digits
        /\ Ch(t, c + 2) \in Digits

\* DATE_SIMPLE_REGEX  ^\d{1,2}\s*[A-Za-z]{3}$
DATE_SIMPLE_REGEX(t) ==
    \E k \in {1, 2} :
        Exactly(t, Star(t, Exactly(t, 1, Digits, k), Spaces), Letters, 3) = Len(t) + 1

\* DOC_REF_REGEX  ^RBP[A-Z]{2}\d
DOC_REF_REGEX(t) == Exactly(t, Exactly(t, LitAt(t, 1, "RBP"), UpperSet, 2), Digits, 1) # 0

SKIP_PHRASES ==
    {"account activity", "opening balance", "closing balance", "account fees",
     "total deposits", "total cheques", "date description", "cheques & debits",
     "deposits & credits", "withdrawals", "royal bank", "page ", "of 1", "of 2",
     "of 3", "of 4", "of 5", "of 6", "of 7", "of 8", "of 9", "of 10",
     "account statement", "account number", "continued"}

MONTH_NAMES ==
    {"august", "september", "october", "november", "december", "january",
     "february", "march", "april", "may", "june", "july"}

\* any(phrase in row_text for phrase in SKIP_PHRASES), row_text in lower case
Chq_is_header(row) ==
    LET row_text == Lower(RowText(row))
    IN  \E phrase \in SKIP_PHRASES : Contains(row_text, phrase)

\* datetime(start_date.year, month, day), moved to the year of end_date when
\* it falls before start_date; "raise" when datetime() rejects the day.
Chq_date_in_period(month, day, start_date, end_date) ==
    IF ~ValidDate(start_date.year, month, day) THEN [tag |-> "raise"]
    ELSE IF DateLess(Date(start_date.year, month, day), start_date)
         THEN IF ~ValidDate(end_date.year, month, day) THEN [tag |-> "raise"]
              ELSE [tag |-> "date", date |-> Date(end_date.year, month, day)]
         ELSE [tag |-> "date", date |-> Date(start_date.year, month, day)]

Chq_date_of_match(m, date_str, start_date, end_date) ==
    IF ~m.ok THEN [tag |-> "str", str |-> date_str]
    ELSE Chq_date_in_period(MonthNumber(m.month_str), DigitsToInt(m.day),
                            start_date, end_date)

\* _parse_date: a date, the text itself when it does not match, or "raise".
Chq_parse_date(date_str, start_date, end_date) ==
    Chq_date_of_match(Chq_TRANSACTION_DATE_REGEX(date_str), date_str,
                      start_date, end_date)

\* Spans of a page: stripped text, non-empty, not a document reference code.
Chq_collect_spans(page) ==
    SelectSeq([k \in DOMAIN page |-> [page[k] EXCEPT !.text = Strip(@)]],
              LAMBDA sp : sp.text # "" /\ ~DOC_REF_REGEX(sp.text))

Chq_MAX_MERGE_GAP == 15

Chq_has_amounts(row) == \E k \in DOMAIN row : Chq_AMOUNT_REGEX(row[k].text)
Chq_has_date(row) == \E k \in DOMAIN row : DATE_SIMPLE_REGEX(row[k].text)

\* The inner loop of the merge pass, entered with a row that has no amount
\* and is no header.  Returns the index of the last row consumed and the
\* merged row.
RECURSIVE Chq_merge_continuations(_, _, _)
Chq_merge_continuations(rs, i, current_row) ==
    IF ~(i + 1 <= Len(rs)) THEN [i |-> i, row |-> current_row]
    ELSE LET next_row   == rs[i + 1]
             y_distance == Abs(next_row[1].y - current_row[Len(current_row)].y)
             merged     == current_row \o next_row
         IN  IF Chq_has_date(next_row) \/ y_distance > Chq_MAX_MERGE_GAP
             THEN [i |-> i, row |-> current_row]
             ELSE IF Chq_has_amounts(merged) THEN [i |-> i + 1, row |-> merged]
             ELSE Chq_merge_continuations(rs, i + 1, merged)

\* A merge pass that leaves every row as it is.
Chq_merge_rows_unmerged(rs, i, merged_rows) == merged_rows \o SubSeq(rs, i, Len(rs))

\* The merge pass: while i < len(rows).
RECURSIVE Chq_merge_rows(_, _, _)
Chq_merge_rows(rs, i, merged_rows) ==
    IF ~(i <= Len(rs)) THEN merged_rows
    ELSE IF ~Chq_has_amounts(rs[i]) /\ ~Chq_is_header(rs[i])
         THEN LET m == Chq_merge_continuations(rs, i, rs[i])
              IN  Chq_merge_rows(rs, m.i + 1, Append(merged_rows, m.row))
         ELSE Chq_merge_rows(rs, i + 1, Append(merged_rows, rs[i]))

WITHDRAWAL_DEPOSIT_BOUNDARY == 400
DEPOSIT_BALANCE_BOUNDARY == 500

\* float(amount) after the commas are removed, in cents; <<>> stands for None.
Chq_amount(column) ==
    IF column = <<>> THEN <<>>
    ELSE <<DigitsToInt(Keep(column[Len(column)].text, Digits))>>

\* The end of an iteration of "for row_spans in rows": a record is appended
\* when the row has description text and an amount.
Chq_row_record(seen, parsed_date, amounts, description_spans) ==
    IF description_spans = <<>> THEN seen
    ELSE IF amounts = <<>> THEN seen
    ELSE [seen EXCEPT !.txs = Append(@,
             [Date |-> parsed_date,
              Description |-> JoinSp(description_spans),
              Withdrawals |-> Chq_amount(SelectSeq(amounts,
                  LAMBDA sp : sp.x < WITHDRAWAL_DEPOSIT_BOUNDARY)),
              Deposits |-> Chq_amount(SelectSeq(amounts,
                  LAMBDA sp : /\ ~(sp.x < WITHDRAWAL_DEPOSIT_BOUNDARY)
                              /\ sp.x < DEPOSIT_BALANCE_BOUNDARY)),
              Balance |-> Chq_amount(SelectSeq(amounts,
                  LAMBDA sp : ~(sp.x < DEPOSIT_BALANCE_BOUNDARY)))])]

\* The row once its date is known: header rows and month names are skipped,
\* the other spans (rest leaves out the date span) are split by kind.
Chq_row_columns(seen, row_spans, parsed_date, rest) ==
    IF Chq_is_header(row_spans) THEN seen
    ELSE IF Strip(Lower(RowText(row_spans))) \in MONTH_NAMES THEN seen
    ELSE Chq_row_record(seen, parsed_date,
             SelectSeq(rest, LAMBDA sp : Chq_AMOUNT_REGEX(sp.text)),
             RowTexts(SelectSeq(rest, LAMBDA sp : ~Chq_AMOUNT_REGEX(sp.text))))

Chq_row_dated(st, row_spans, parsed_date, date_spans) ==
    IF parsed_date.tag = "raise" THEN [st EXCEPT !.raised = TRUE]
    ELSE Chq_row_columns([st EXCEPT !.last_date = <<parsed_date>>], row_spans,
             parsed_date, SelectSeq(row_spans, LAMBDA sp : sp \notin date_spans))

\* The first span of the row that DATE_SIMPLE_REGEX matches.
Chq_date_span(row_spans) ==
    row_spans[CHOOSE k \in DOMAIN row_spans :
                /\ DATE_SIMPLE_REGEX(row_spans[k].text)
                /\ \A j \in 1..(k - 1) : ~DATE_SIMPLE_REGEX(row_spans[j].text)]

\* One iteration of "for row_spans in rows".  st carries the records, the
\* last date seen (<<>> for None) and whether _parse_date has raised.
Chq_parse_row(st, row_spans, start_date, end_date) ==
    IF row_spans = <<>> THEN st
    ELSE IF Chq_has_date(row_spans)
         THEN Chq_row_dated(st, row_spans,
                  Chq_parse_date(Chq_date_span(row_spans).text, start_date, end_date),
                  {Chq_date_span(row_spans)})
         ELSE IF st.last_date = <<>> THEN st
              ELSE Chq_row_dated(st, row_spans, st.last_date[1], {})

RECURSIVE Chq_parse_rows(_, _, _, _, _)
Chq_parse_rows(st, rs, k, start_date, end_date) ==
    IF st.raised \/ k > Len(rs) THEN st
    ELSE Chq_parse_rows(Chq_parse_row(st, rs[k], start_date, end_date),
                        rs, k + 1, start_date, end_date)

\* The body of "for page in pdf_doc" for one page.
Chq_extract_page(st, page, start_date, end_date) ==
    LET all_spans == SortByYX(Chq_collect_spans(page))
        grouped   == group_spans_by_row(all_spans, Y_TOLERANCE)
        merged    == Chq_merge_rows(grouped, 1, <<>>)
    IN  Chq_parse_rows(st, merged, 1, start_date, end_date)

\* A page loop that forgets the last date at the top of each page.
RECURSIVE Chq_extract_pages_reset(_, _, _, _, _)
Chq_extract_pages_reset(st, pdf_doc, k, start_date, end_date) ==
    IF st.raised \/ k > Len(pdf_doc) THEN st
    ELSE Chq_extract_pages_reset(
             Chq_extract_page([st EXCEPT !.last_date = <<>>], pdf_doc[k],
                              start_date, end_date),
             pdf_doc, k + 1, start_date, end_date)

RECURSIVE Chq_extract_pages(_, _, _, _, _)
Chq_extract_pages(st, pdf_doc, k, start_date, end_date) ==
    IF st.raised \/ k > Len(pdf_doc) THEN st
    ELSE Chq_extract_pages(Chq_extract_page(st, pdf_doc[k], start_date, end_date),
                           pdf_doc, k + 1, start_date, end_date)

\* extract(pdf_doc, start_date, end_date): the records, or Raised.  The last
\* step converts the Date column (pd.to_datetime), which fails on a date that
\* _parse_date left as text.
Chq_extract(pdf_doc, start_date, end_date) ==
    LET st == Chq_extract_pages([raised |-> FALSE, txs |-> <<>>, last_date |-> <<>>],
                                pdf_doc, 1, start_date, end_date)
    IN  IF st.raised THEN Raised
        ELSE IF \E k \in DOMAIN st.txs : st.txs[k].Date.tag = "str" THEN Raised
        ELSE Emitted(st.txs)

(***************************************************************************)
(* Classifier.normalize_description (the same in both packages)            *)
(***************************************************************************)
\* Strings of the model are ASCII.  Two letters outside ASCII matter to the
\* patterns below and are written with stand-ins that no description of the
\* model uses otherwise: "{" stands for U+0131 (dotless i) and "}" for
\* U+017F (long s).  Both are lower-case letters that str.lower() leaves as
\* they are, both are word characters, and under re.IGNORECASE the class
\* [a-z] matches them (their upper case is I and S).
DOTLESS_I == "{"
LONG_S == "}"
WordChars == Letters \cup Digits \cup {"_", DOTLESS_I, LONG_S}
IdChars == UpperSet \cup Digits

\* The tail of SIMPLE_ID_PATTERN: e is the position after the second run of
\* capitals, z the end of the run of capitals and digits.  A digit at e, one
\* more character of the run, and a word boundary at z.
SimpleIdEnd(s, e, z) ==
    IF /\ e # 0 /\ e <= Len(s) /\ Ch(s, e) \in Digits /\ e + 1 < z
       /\ (z > Len(s) \/ Ch(s, z) \notin WordChars)
    THEN z ELSE 0

\* SIMPLE_ID_PATTERN  [-\*]\s*[0-9]*(?:[A-Z]+[0-9]+){2,}[A-Z0-9]+\b  at p:
\* the position after the match, 0 when there is none.
SimpleIdFrom(s, a) ==
    SimpleIdEnd(s,
        Plus(s, Plus(s, Plus(s, SkipWhile(s, a, Digits), UpperSet), Digits), UpperSet),
        SkipWhile(s, a, IdChars))

SimpleIdAt(s, p) ==
    IF p > Len(s) \/ Ch(s, p) \notin {"-", "*"} THEN 0
    ELSE SimpleIdFrom(s, SkipWhile(s, p + 1, Spaces))

\* SIMPLE_ID_PATTERN.sub("", s), from position p on
RECURSIVE SubSimpleId(_, _)
SubSimpleId(s, p) ==
    IF p > Len(s) THEN ""
    ELSE IF SimpleIdAt(s, p) # 0 THEN SubSimpleId(s, SimpleIdAt(s, p))
    ELSE Ch(s, p) \o SubSimpleId(s, p + 1)

\* LONGER_ID_PATTERN  \b[0-9]*[A-Z]+[0-9]+[A-Z0-9]+$|\s*[0-9]+$  matching
\* from p to the end of s.
LongerIdWord(s, p, b, c) ==
    /\ p = 1 \/ Ch(s, p - 1) \notin WordChars
    /\ c > b /\ c + 1 <= Len(s) /\ Ch(s, c) \in Digits
    /\ SkipWhile(s, p, IdChars) = Len(s) + 1

LongerIdAt(s, p) ==
    \/ LongerIdWord(s, p, SkipWhile(s, p, Digits),
                    SkipWhile(s, SkipWhile(s, p, Digits), UpperSet))
    \/ /\ SkipWhile(s, p, Spaces) <= Len(s)
       /\ SkipWhile(s, SkipWhile(s, p, Spaces), Digits) = Len(s) + 1

\* LONGER_ID_PATTERN.sub("", s): the leftmost match runs to the end.
RECURSIVE SubLongerId(_, _)
SubLongerId(s, p) ==
    IF p > Len(s) THEN s
    ELSE IF LongerIdAt(s, p) THEN SubSeq(s, 1, p - 1)
    ELSE SubLongerId(s, p + 1)

\* The first position from i on whose character is in class.
RECURSIVE SkipUntil(_, _, _)
SkipUntil(s, i, class) ==
    IF i <= Len(s) /\ Ch(s, i) \notin class THEN SkipUntil(s, i + 1, class) ELSE i

\* pattern.sub(" ", s) for a pattern [^class]+ : every run of characters
\* outside class becomes one space.
RECURSIVE SubRuns(_, _, _)
SubRuns(s, p, class) ==
    IF p > Len(s) THEN ""
    ELSE IF Ch(s, p) \in class THEN Ch(s, p) \o SubRuns(s, p + 1, class)
    ELSE " " \o SubRuns(s, SkipUntil(s, p, class), class)

\* What [a-z] matches in a lower-case string under re.IGNORECASE
IGNORECASE_a_z == LowerSet \cup {DOTLESS_I, LONG_S}

\* NON_ALPHA_PATTERN [^a-z]+ (re.IGNORECASE) on the lower-cased string
normalize_description(description) ==
    Strip(SubRuns(Lower(SubLongerId(SubSimpleId(description, 1), 1)), 1,
                  IGNORECASE_a_z))

(***************************************************************************)
(* Amounts are counted in cents.  The classifier prints them with the      *)
(* format codes "+g" and ".1g"; the operators below print amounts below    *)
(* 10000.00, for which six significant digits keep every cent.             *)
(***************************************************************************)
DecimalDigit(v) == Ch("0123456789", v + 1)

RECURSIVE IntToStr(_)
IntToStr(n) == IF n < 10 THEN DecimalDigit(n)
               ELSE IntToStr(n \div 10) \o DecimalDigit(n % 10)

\* The fraction of a printed amount: "", ".5" or ".75"
FractionStr(f) ==
    IF f = 0 THEN ""
    ELSE "." \o DecimalDigit(f \div 10)
             \o (IF f % 10 = 0 THEN "" ELSE DecimalDigit(f % 10))

\* f"{amount:+g}"
FormatG(cents) ==
    (IF cents < 0 THEN "-" ELSE "+")
    \o IntToStr(Abs(cents) \div 100) \o FractionStr(Abs(cents) % 100)

RECURSIVE Pow10(_)
Pow10(n) == IF n = 0 THEN 1 ELSE 10 * Pow10(n - 1)

\* The number of decimal digits of m > 0
RECURSIVE NumDigits(_)
NumDigits(m) == IF m < 10 THEN 1 ELSE 1 + NumDigits(m \div 10)

\* The leading digit of m after rounding to one significant digit; unit is
\* the weight of that digit.  A tie goes to the even digit when the amount
\* is a binary fraction (whole dollars, halves and quarters); the other
\* ties, 0.15 to 0.95, go where the nearest double lies.
RoundLead(m, unit) ==
    LET lead == m \div unit
        rest == m % unit
    IN  IF 2 * rest > unit THEN lead + 1
        ELSE IF 2 * rest < unit THEN lead
        ELSE IF unit = 10 /\ lead \in {4, 5, 6} THEN lead + 1
        ELSE IF unit = 10 /\ lead \in {1, 3, 8, 9} THEN lead
        ELSE IF lead % 2 = 0 THEN lead ELSE lead + 1

\* float(format(amount, ".1g"))
RoundMagnitude(m) ==
    IF m = 0 THEN 0
    ELSE RoundLead(m, Pow10(NumDigits(m) - 1)) * Pow10(NumDigits(m) - 1)

Round1(cents) == IF cents < 0 THEN -RoundMagnitude(-cents) ELSE RoundMagnitude(cents)

(***************************************************************************)
(* Dictionaries of category sets.  A dict is a function from its keys; an  *)
(* ordered dict is the sequence of its items in insertion order.           *)
(***************************************************************************)
EmptyDict == [k \in {} |-> {}]
\* dict.get(key, set())
DictGet(dict, key) == IF key \in DOMAIN dict THEN dict[key] ELSE {}
\* dict[key] = {category}: the set is replaced.
DictAdd_replace(dict, key, category) ==
    [k \in DOMAIN dict \cup {key} |-> IF k = key THEN {category} ELSE dict[k]]

\* dict.setdefault(key, set()).add(category)
DictAdd(dict, key, category) ==
    [k \in DOMAIN dict \cup {key} |->
        IF k = key THEN DictGet(dict, key) \cup {category} ELSE dict[k]]

ItemsAdd(items, key, category) ==
    IF \E i \in DOMAIN items : items[i].key = key
    THEN [i \in DOMAIN items |->
            IF items[i].key = key
            THEN [items[i] EXCEPT !.categories = @ \cup {category}]
            ELSE items[i]]
    ELSE Append(items, [key |-> key, categories |-> {category}])

\* list(category_set)[0] for a set of one category
Only(category_set) == CHOOSE c \in category_set : TRUE

\* A similarity score of n points, in half points.
Points(n) == 2 * n

(***************************************************************************)
(* bank_statement_processor: Classifier                                    *)
(***************************************************************************)
MARKER == "**"

\* f"{amount:+g} || {norm_desc}"
Bsp_exact_key(amount, norm_desc) == FormatG(amount) \o " || " \o norm_desc
\* f"{float(format(amount, '.1g')):+g} || {norm_desc}"
Bsp_stored_coarse_key(amount, norm_desc) == FormatG(Round1(amount)) \o " || " \o norm_desc
\* f"{norm_desc} || {float(format(amount, '.1g')):+g}"
Bsp_query_coarse_key(amount, norm_desc) == norm_desc \o " || " \o FormatG(Round1(amount))

\* set_category: the two dictionaries after the call
Bsp_trained(training, norm_desc, amount, category) ==
    DictAdd(DictAdd(training, norm_desc, category),
            Bsp_exact_key(amount, norm_desc), category)

Bsp_amount_trained(items, norm_desc, amount, category) ==
    ItemsAdd(items, Bsp_stored_coarse_key(amount, norm_desc), category)

Bsp_set_category(cls, description, amount, category) ==
    [training |-> Bsp_trained(cls.training, normalize_description(description),
                              amount, category),
     amount_training |-> Bsp_amount_trained(cls.amount_training,
                              normalize_description(description), amount, category)]

FUZZY_THRESHOLD == 90

NoCandidate == [found |-> FALSE, category |-> "", score |-> 0, matched |-> ""]

\* A loop that does not skip the items with several categories.
RECURSIVE Bsp_fuzzy_loop_all(_, _, _, _, _)
Bsp_fuzzy_loop_all(items, scores, i, threshold, best) ==
    IF i > Len(items) THEN best
    ELSE IF scores[i] >= threshold
         THEN Bsp_fuzzy_loop_all(items, scores, i + 1, scores[i],
                  [found |-> TRUE, category |-> Only(items[i].categories),
                   score |-> scores[i], matched |-> items[i].key])
    ELSE Bsp_fuzzy_loop_all(items, scores, i + 1, threshold, best)

\* The loop over _category_amount_training.items(): scores[i] is
\* fuzz.WRatio(key, target_key) for the i-th item.  An item with more than
\* one category is skipped; a score at or above the running threshold wins.
RECURSIVE Bsp_fuzzy_loop(_, _, _, _, _)
Bsp_fuzzy_loop(items, scores, i, threshold, best) ==
    IF i > Len(items) THEN best
    ELSE IF Cardinality(items[i].categories) > 1
         THEN Bsp_fuzzy_loop(items, scores, i + 1, threshold, best)
    ELSE IF scores[i] >= threshold
         THEN Bsp_fuzzy_loop(items, scores, i + 1, scores[i],
                  [found |-> TRUE, category |-> Only(items[i].categories),
                   score |-> scores[i], matched |-> items[i].key])
    ELSE Bsp_fuzzy_loop(items, scores, i + 1, threshold, best)

\* The answer of get_category: found is FALSE for None; stage tells which
\* return statement produced it, key the key looked up at that stage.
None(key) ==
    [found |-> FALSE, value |-> "", stage |-> "none", score |-> 0,
     key |-> key, matched |-> ""]
Stored(category_set, stage, key) ==
    [found |-> TRUE, value |-> Only(category_set), stage |-> stage, score |-> 0,
     key |-> key, matched |-> key]
\* An answer of the fuzzy stage that leaves the marker out.
Inferred_unmarked(best, key) ==
    IF best.found
    THEN [found |-> TRUE, value |-> best.category, stage |-> "fuzzy",
          score |-> best.score, key |-> key, matched |-> best.matched]
    ELSE None(key)

Inferred(best, key) ==
    IF best.found
    THEN [found |-> TRUE, value |-> best.category \o MARKER, stage |-> "fuzzy",
          score |-> best.score, key |-> key, matched |-> best.matched]
    ELSE None(key)

Bsp_lookup(cls, norm_desc, amount, scores) ==
    IF Cardinality(DictGet(cls.training, Bsp_exact_key(amount, norm_desc))) = 1
    THEN Stored(DictGet(cls.training, Bsp_exact_key(amount, norm_desc)), "exact",
                Bsp_exact_key(amount, norm_desc))
    ELSE IF Cardinality(DictGet(cls.training, norm_desc)) = 1
    THEN Stored(DictGet(cls.training, norm_desc), "bare", norm_desc)
    ELSE Inferred(Bsp_fuzzy_loop(cls.amount_training, scores, 1,
                                 Points(FUZZY_THRESHOLD), NoCandidate),
                  Bsp_query_coarse_key(amount, norm_desc))

Bsp_get_category(cls, description, amount, scores) ==
    Bsp_lookup(cls, normalize_description(description), amount, scores)

(***************************************************************************)
(* rbc2: Classifier                                                        *)
(***************************************************************************)
\* NON_ALPHA_NUM_PATTERN.sub(" ", description.lower()).strip()
Rbc2_cluster_text(description) ==
    Strip(SubRuns(Lower(description), 1, LowerSet \cup Digits))

\* int(abs(amount)), printed
Rbc2_norm_amount(amount) == IntToStr(Abs(amount) \div 100)

\* f"{norm_desc} | {norm_amount}"
Rbc2_amount_key(amount, norm_desc) == norm_desc \o " | " \o Rbc2_norm_amount(amount)

SET_CLUSTER_THRESHOLD == 90
GET_CLUSTER_THRESHOLD == 80

NoCluster == [index |-> 0, score |-> 0]

\* The loop of set_category_cluster: best_score starts at threshold - 1; a
\* cluster with a higher score is taken when its category is the row's.
RECURSIVE Rbc2_set_cluster_loop(_, _, _, _, _)
Rbc2_set_cluster_loop(clusters, scores, category, i, best) ==
    IF i > Len(clusters) THEN best
    ELSE IF scores[i] > best.score /\ clusters[i].category = category
         THEN Rbc2_set_cluster_loop(clusters, scores, category, i + 1,
                                    [index |-> i, score |-> scores[i]])
    ELSE Rbc2_set_cluster_loop(clusters, scores, category, i + 1, best)

\* set_category_cluster(description, category, threshold): the clusters after
\* the call.
Rbc2_clustered(clusters, norm_desc, category, threshold, best) ==
    IF best.index # 0 /\ best.score >= Points(threshold)
    THEN [clusters EXCEPT ![best.index].members = Append(@, norm_desc)]
    ELSE Append(clusters, [category |-> category, members |-> <<norm_desc>>,
                           rep |-> norm_desc])

Rbc2_set_category_cluster(clusters, description, category, threshold, scores) ==
    Rbc2_clustered(clusters, Rbc2_cluster_text(description), category, threshold,
        Rbc2_set_cluster_loop(clusters, scores, category, 1,
            [index |-> 0, score |-> Points(threshold - 1)]))

\* set_category: _category_lookup after the call
Rbc2_trained(lookup, norm_desc, amount, category) ==
    DictAdd(DictAdd(lookup, norm_desc, category),
            Rbc2_amount_key(amount, norm_desc), category)

\* set_category: _category_clusters after the call
Rbc2_set_category_clusters(clusters, description, amount, category, scores) ==
    Rbc2_set_category_cluster(clusters,
        description \o " " \o Rbc2_norm_amount(amount), category,
        SET_CLUSTER_THRESHOLD, scores)

\* The loop of get_category_cluster: best_score starts at threshold - 1 and a
\* cluster is taken when its score is higher.
RECURSIVE Rbc2_get_cluster_loop(_, _, _, _)
Rbc2_get_cluster_loop(clusters, scores, i, best) ==
    IF i > Len(clusters) THEN best
    ELSE IF scores[i] > best.score
         THEN Rbc2_get_cluster_loop(clusters, scores, i + 1,
                                    [index |-> i, score |-> scores[i]])
    ELSE Rbc2_get_cluster_loop(clusters, scores, i + 1, best)

\* get_category_cluster(description, threshold): the index of the cluster
\* returned (0 for None) and its score.
Rbc2_get_category_cluster(clusters, threshold, scores) ==
    Rbc2_get_cluster_loop(clusters, scores, 1,
                          [index |-> 0, score |-> Points(threshold - 1)])

Rbc2_inferred(clusters, best, key) ==
    IF best.index # 0
    THEN [found |-> TRUE, value |-> clusters[best.index].category \o MARKER,
          stage |-> "fuzzy", score |-> best.score, key |-> key,
          matched |-> clusters[best.index].rep]
    ELSE None(key)

Rbc2_lookup(lookup, clusters, description, norm_desc, amount, scores) ==
    IF Cardinality(DictGet(lookup, Rbc2_amount_key(amount, norm_desc))) = 1
    THEN Stored(DictGet(lookup, Rbc2_amount_key(amount, norm_desc)), "exact",
                Rbc2_amount_key(amount, norm_desc))
    ELSE IF Cardinality(DictGet(lookup, norm_desc)) = 1
    THEN Stored(DictGet(lookup, norm_desc), "bare", norm_desc)
    ELSE Rbc2_inferred(clusters,
             Rbc2_get_category_cluster(clusters, GET_CLUSTER_THRESHOLD, scores),
             Rbc2_cluster_text(description))

Rbc2_get_category(lookup, clusters, description, amount, scores) ==
    Rbc2_lookup(lookup, clusters, description, normalize_description(description),
                amount, scores)

(***************************************************************************)
(* rbc2: categorizer                                                       *)
(***************************************************************************)
\* re.sub(r"\*[0-9]*(?:[A-Z]+[0-9]+){2,}[A-Z0-9]+\b", "", s), from p on
RECURSIVE Cat_sub_star_id(_, _)
Cat_sub_star_id(s, p) ==
    IF p > Len(s) THEN ""
    ELSE IF Ch(s, p) = "*" /\ SimpleIdFrom(s, p + 1) # 0
         THEN Cat_sub_star_id(s, SimpleIdFrom(s, p + 1))
    ELSE Ch(s, p) \o Cat_sub_star_id(s, p + 1)

\* re.sub(r"\b[0-9]*[A-Z]+[0-9]+[A-Z0-9]+$", "", s)
RECURSIVE Cat_sub_trailing_id(_, _)
Cat_sub_trailing_id(s, p) ==
    IF p > Len(s) THEN s
    ELSE IF LongerIdWord(s, p, SkipWhile(s, p, Digits),
                         SkipWhile(s, SkipWhile(s, p, Digits), UpperSet))
         THEN SubSeq(s, 1, p - 1)
    ELSE Cat_sub_trailing_id(s, p + 1)

\* get_category_keys: the normalized description (letters only, lower case)
Cat_normalized_description(description) ==
    Lower(Keep(Cat_sub_trailing_id(Cat_sub_star_id(description, 1), 1), Letters))

\* f"{normalized_description}|{int_amount}"
Cat_key_with_amount(amount, norm_desc) == norm_desc \o "|" \o Rbc2_norm_amount(amount)

\* initialize_category_lookup: temp_map after the rows from i on
RECURSIVE Cat_temp_map(_, _, _)
Cat_temp_map(csv_rows, i, temp_map) ==
    IF i > Len(csv_rows) THEN temp_map
    ELSE Cat_temp_map(csv_rows, i + 1,
             DictAdd(DictAdd(temp_map,
                         Cat_key_with_amount(csv_rows[i].amount,
                             Cat_normalized_description(csv_rows[i].description)),
                         csv_rows[i].category),
                     Cat_normalized_description(csv_rows[i].description),
                     csv_rows[i].category))

\* initialize_category_lookup: the keys without conflict, each with its category
Cat_final_lookup(temp_map) ==
    [k \in {j \in DOMAIN temp_map : Cardinality(temp_map[j]) = 1} |-> Only(temp_map[k])]

initialize_category_lookup(csv_rows) == Cat_final_lookup(Cat_temp_map(csv_rows, 1, EmptyDict))

Cat_found(value, stage, key) ==
    [found |-> TRUE, value |-> value, stage |-> stage, score |-> 0,
     key |-> key, matched |-> key]

Cat_lookup(lookup, norm_desc, amount) ==
    IF Cat_key_with_amount(amount, norm_desc) \in DOMAIN lookup
    THEN Cat_found(lookup[Cat_key_with_amount(amount, norm_desc)], "exact",
                   Cat_key_with_amount(amount, norm_desc))
    ELSE IF norm_desc \in DOMAIN lookup
    THEN Cat_found(lookup[norm_desc], "bare", norm_desc)
    ELSE None(norm_desc)

categorize_transaction(lookup, description, amount) ==
    Cat_lookup(lookup, Cat_normalized_description(description), amount)

(***************************************************************************)
(* rbc2: VisaStatementExtractor.  A record is a CSV row: a function from   *)
(* the column names to the cell texts.                                     *)
(***************************************************************************)
Pad2(n) == IF n < 10 THEN "0" \o IntToStr(n) ELSE IntToStr(n)

\* _determine_year
Rbc2Visa_determine_year(month, start_year, end_year) ==
    IF start_year = end_year THEN start_year
    ELSE IF month >= 10 THEN start_year ELSE end_year

\* _parse_date: the text "YYYY-MM-DD", the upper-cased text itself when it does
\* not start with three letters and a digit, or [tag |-> "raise"] when
\* strptime(month_str, "%b") rejects the three letters.
Rbc2Visa_parse_date(date_str, start_year, end_year) ==
    LET ds == Upper(Remove(date_str, {" "}))
        a  == Exactly(ds, 1, UpperSet, 3)
        d2 == Exactly(ds, a, Digits, 2)
        d1 == Exactly(ds, a, Digits, 1)
        e  == IF d2 # 0 THEN d2 ELSE d1
    IN  IF e = 0 THEN [tag |-> "str", str |-> ds]
        ELSE IF SubSeq(ds, 1, 3) \notin MonthAbbrs THEN [tag |-> "raise"]
        ELSE [tag |-> "str",
              str |-> IntToStr(Rbc2Visa_determine_year(MonthNumber(SubSeq(ds, 1, 3)),
                                                       start_year, end_year))
                      \o "-" \o Pad2(MonthNumber(SubSeq(ds, 1, 3)))
                      \o "-" \o Pad2(DigitsToInt(SubSeq(ds, a, e - 1)))]

\* ^[A-Z]{3}\s*\d{1,2}$  applied to first_text.upper()
Rbc2Visa_first_date(u) ==
    LET n == Len(u)
        a == Star(u, Exactly(u, 1, UpperSet, 3), Spaces)
    IN  /\ a # 0
        /\ n - a + 1 \in {1, 2}
        /\ \A k \in a..n : Ch(u, k) \in Digits

\* "Clean amount": the sign printed on the statement is kept.
Rbc2Visa_amount(amount) ==
    LET is_negative  == Len(amount) >= 1 /\ Ch(amount, 1) = "-"
        amount_clean == Remove(amount, {"-", "$", ","})
    IN  IF is_negative THEN "-" \o amount_clean ELSE amount_clean

VisaColumns == {"Transaction Date", "Posting Date", "Description", "Amount"}

Rbc2Visa_record(trans_date, post_date, description, amount) ==
    [c \in VisaColumns |->
        CASE c = "Transaction Date" -> trans_date
          [] c = "Posting Date" -> post_date
          [] c = "Description" -> description
          [] c = "Amount" -> amount]

\* One iteration of "for row_spans in rows".
Rbc2Visa_parse_row(txs, row_spans, start_year, end_year) ==
    LET row_text == RowText(row_spans)
        cm       == CurrencySearch(row_text, FALSE)
        second   == SECOND_DATE_REGEX(Upper(row_spans[2].text))
        trans    == Rbc2Visa_parse_date(row_spans[1].text, start_year, end_year)
        post     == Rbc2Visa_parse_date(second.group1, start_year, end_year)
    IN  IF cm.ok
        THEN IF txs # <<>>
             THEN Emitted([txs EXCEPT ![Len(txs)] =
                      [@ EXCEPT !["Description"] =
                          @ \o " (" \o cm.foreign_amount \o " " \o cm.currency_code
                            \o " @" \o cm.exchange_rate \o ")"]])
             ELSE Emitted(txs)
        ELSE IF Len(row_spans) < 3 THEN Emitted(txs)
        ELSE IF CARD_NUMBER_SECTION_REGEX(row_text) THEN Emitted(txs)
        ELSE IF Visa_is_header(row_text) THEN Emitted(txs)
        ELSE IF ~Rbc2Visa_first_date(Upper(row_spans[1].text)) THEN Emitted(txs)
        ELSE IF ~Visa_AMOUNT_REGEX(row_spans[Len(row_spans)].text) THEN Emitted(txs)
        ELSE IF ~second.ok THEN Emitted(txs)
        ELSE IF trans.tag = "raise" \/ post.tag = "raise" THEN Raised
        ELSE Emitted(Append(txs,
                 Rbc2Visa_record(trans.str, post.str,
                                 Visa_description(row_spans, second),
                                 Rbc2Visa_amount(row_spans[Len(row_spans)].text))))

RECURSIVE Rbc2Visa_parse_rows(_, _, _, _, _)
Rbc2Visa_parse_rows(acc, rs, k, start_year, end_year) ==
    IF acc.raised \/ k > Len(rs) THEN acc
    ELSE Rbc2Visa_parse_rows(Rbc2Visa_parse_row(acc.txs, rs[k], start_year, end_year),
                             rs, k + 1, start_year, end_year)

\* The body of "for page in doc" for one page.
Rbc2Visa_extract_page(txs, page, start_year, end_year) ==
    Rbc2Visa_parse_rows(Emitted(txs),
                        group_spans_by_row(SortByYX(Visa_collect_spans(page)), Y_TOLERANCE),
                        1, start_year, end_year)

RECURSIVE Rbc2Visa_extract_pages(_, _, _, _, _)
Rbc2Visa_extract_pages(acc, pdf_doc, k, start_year, end_year) ==
    IF acc.raised \/ k > Len(pdf_doc) THEN acc
    ELSE Rbc2Visa_extract_pages(
             Rbc2Visa_extract_page(acc.txs, pdf_doc[k], start_year, end_year),
             pdf_doc, k + 1, start_year, end_year)

Rbc2Visa_extract(pdf_doc, start_year, end_year) ==
    Rbc2Visa_extract_pages(Emitted(<<>>), pdf_doc, 1, start_year, end_year)

\* extract_to_csv after the extractor ran: the CSV table (its header and its
\* rows), or a ValueError when there is no transaction.
CsvTable(columns, table_rows) == [raised |-> FALSE, columns |-> columns, rows |-> table_rows]
CsvRaised == [raised |-> TRUE, columns |-> {}, rows |-> <<>>]

extract_to_csv(txs) ==
    IF txs = <<>> THEN CsvRaised ELSE CsvTable(DOMAIN txs[1], txs)

(***************************************************************************)
(* rbc2: processors                                                        *)
(***************************************************************************)
FullMonthNames == <<"JANUARY", "FEBRUARY", "MARCH", "APRIL", "MAY", "JUNE", "JULY",
                    "AUGUST", "SEPTEMBER", "OCTOBER", "NOVEMBER", "DECEMBER">>

\* A strptime field of one or two digits at position i: the position after it
\* and its value, or pos = 0.
TwoDigitField(d, i) ==
    LET j == Star(d, i, Digits)
    IN  IF i = 0 \/ j - i \notin {1, 2} THEN [pos |-> 0, val |-> 0]
        ELSE [pos |-> j, val |-> DigitsToInt(SubSeq(d, i, j - 1))]

DateParsed(year_text, month, day, end, d) ==
    IF end = Len(d) + 1 /\ ValidDate(DigitsToInt(year_text), month, day)
    THEN [ok |-> TRUE, text |-> year_text \o "-" \o Pad2(month) \o "-" \o Pad2(day)]
    ELSE [ok |-> FALSE, text |-> ""]

\* strptime(d, "%Y<sep>%m<sep>%d").strftime("%Y-%m-%d")
StrptimeYMD(d, sep) ==
    LET y == Exactly(d, 1, Digits, 4)
        m == TwoDigitField(d, LitAt(d, y, sep))
        e == TwoDigitField(d, LitAt(d, m.pos, sep))
    IN  IF e.pos = 0 THEN [ok |-> FALSE, text |-> ""]
        ELSE DateParsed(SubSeq(d, 1, 4), m.val, e.val, e.pos, d)

\* strptime(d, "%B %d, %Y").strftime("%Y-%m-%d")
StrptimeBDY(d) ==
    LET months == {i \in 1..12 : LitAtCI(d, 1, FullMonthNames[i]) # 0}
        month  == IF months = {} THEN 0 ELSE CHOOSE i \in months : TRUE
        a      == IF month = 0 THEN 0
                  ELSE Plus(d, LitAtCI(d, 1, FullMonthNames[month]), Spaces)
        e      == TwoDigitField(d, a)
        y      == Plus(d, LitAt(d, e.pos, ","), Spaces)
        end    == Exactly(d, y, Digits, 4)
    IN  IF end = 0 THEN [ok |-> FALSE, text |-> ""]
        ELSE DateParsed(SubSeq(d, y, y + 3), month, e.val, end, d)

\* iso8601_date: ok = FALSE stands for ValueError("unsupported date format").
iso8601_date(d) ==
    IF StrptimeYMD(d, "/").ok THEN StrptimeYMD(d, "/")
    ELSE IF StrptimeBDY(d).ok THEN StrptimeBDY(d)
    ELSE StrptimeYMD(d, "-")

\* sanitize_description: every run of newlines becomes one space.
RECURSIVE sanitize_description(_)
sanitize_description(description) ==
    IF Len(description) = 0 THEN ""
    ELSE IF Ch(description, 1) = "\n"
         THEN " " \o sanitize_description(
                        SubSeq(description, SkipWhile(description, 1, {"\n"}),
                               Len(description)))
         ELSE Ch(description, 1)
              \o sanitize_description(SubSeq(description, 2, Len(description)))

\* pd.read_csv: the texts that a cell reads as NaN (the ones in use here).
NA_VALUES == {"", "NA", "N/A", "NULL", "NaN", "nan", "null", "None", "n/a", "#N/A"}
IsNA(t) == t \in NA_VALUES

\* A cell that pd.read_csv reads as a number: -?\d+(\.\d*)?
NumericText(t) ==
    LET a == IF Len(t) >= 1 /\ Ch(t, 1) = "-" THEN 2 ELSE 1
        b == Plus(t, a, Digits)
        c == IF b # 0 /\ b <= Len(t) /\ Ch(t, b) = "." THEN Star(t, b + 1, Digits) ELSE b
    IN  c = Len(t) + 1

\* A column that pd.read_csv gives a numeric dtype: it has a row and every
\* cell is a number or NaN.
NumericColumn(table, column) ==
    /\ table.rows # <<>>
    /\ \A k \in DOMAIN table.rows :
          IsNA(table.rows[k][column]) \/ NumericText(table.rows[k][column])

\* pd.read_csv on a numeric cell: the value in cents, or <<>> for an empty
\* cell (NaN).
ReadFloat(t) ==
    IF IsNA(t) THEN <<>>
    ELSE LET neg   == Ch(t, 1) = "-"
             body  == IF neg THEN SubSeq(t, 2, Len(t)) ELSE t
             dot   == SkipWhile(body, 1, Digits)
             frac  == SubSeq(body, dot + 1, Len(body))
             cents == 100 * DigitsToInt(SubSeq(body, 1, dot - 1))
                      + (IF Len(frac) = 0 THEN 0
                         ELSE IF Len(frac) = 1 THEN 10 * DigitVal(frac)
                         ELSE DigitsToInt(SubSeq(frac, 1, 2)))
         IN  <<IF neg THEN -cents ELSE cents>>

\* fillna(0.0) on a Withdrawals or Deposits cell; a missing column is 0.0
FilledCents(columns, row, column) ==
    IF column \notin columns \/ ReadFloat(row[column]) = <<>> THEN 0
    ELSE ReadFloat(row[column])[1]

Norm_amount_unsigned(columns, row) ==
    IF "Amount" \in columns THEN ReadFloat(row["Amount"])
    ELSE <<FilledCents(columns, row, "Withdrawals") + FilledCents(columns, row, "Deposits")>>

\* The Amount cell of a row: left as read when the table has an Amount
\* column, else Withdrawals * -1.0 + Deposits.
Norm_amount(columns, row) ==
    IF "Amount" \in columns THEN ReadFloat(row["Amount"])
    ELSE <<FilledCents(columns, row, "Withdrawals") * (-1)
           + FilledCents(columns, row, "Deposits")>>

Norm_date_column(columns) ==
    IF "Transaction Date" \in columns THEN "Transaction Date" ELSE "Date"

Norm_date(columns, row) == iso8601_date(row[Norm_date_column(columns)])

\* A text cell as pd.read_csv and to_csv leave it: NaN is written as "".
Norm_text(t) == IF IsNA(t) THEN "" ELSE t

Norm_row(file_name, columns, row) ==
    [Date |-> Norm_date(columns, row).text,
     File |-> IF "File" \in columns THEN Norm_text(row["File"]) ELSE file_name,
     Description |-> IF "Amount" \in columns THEN Norm_text(row["Description"])
                     ELSE sanitize_description(row["Description"]),
     Amount |-> Norm_amount(columns, row)]

Norm_is_balance_row(row) ==
    \/ ContainsCI(row.Description, "OPENING BALANCE")
    \/ ContainsCI(row.Description, "CLOSING BALANCE")

Normalized(table_rows) == [raised |-> FALSE, error |-> "", rows |-> table_rows]
NormError(error) == [raised |-> TRUE, error |-> error, rows |-> <<>>]
UNSUPPORTED_DATE == "ValueError: unsupported date format"
NormRaised == NormError("ValueError: No transactions found")

\* df[column].apply(iso8601_date): the error of the first row that fails, ""
\* when every row converts.  strptime gets a float or an int from a NaN cell
\* or a numeric column and raises TypeError, which iso8601_date lets through.
RECURSIVE Norm_date_error(_, _, _)
Norm_date_error(table, column, k) ==
    IF k > Len(table.rows) THEN ""
    ELSE IF IsNA(table.rows[k][column]) \/ NumericColumn(table, column)
         THEN "TypeError"
    ELSE IF ~iso8601_date(table.rows[k][column]).ok THEN UNSUPPORTED_DATE
    ELSE Norm_date_error(table, column, k + 1)

\* The error of the Amount computation of a table without Amount column:
\* astype(float) rejects a text that is no number, sanitize_description gets
\* a value that is no string.
Norm_amount_error(table) ==
    IF \E c \in {"Withdrawals", "Deposits"} \cap table.columns :
          \E k \in DOMAIN table.rows :
              ~IsNA(table.rows[k][c]) /\ ~NumericText(table.rows[k][c])
    THEN "ValueError: could not convert string to float"
    ELSE IF \/ NumericColumn(table, "Description")
            \/ \E k \in DOMAIN table.rows : IsNA(table.rows[k]["Description"])
    THEN "TypeError"
    ELSE ""

\* normalize_csv on a table read from CSV text: the normalized rows, or the
\* error that leaves the function.
normalize_csv(file_name, table) ==
    IF {"Transaction Date", "Date"} \cap table.columns = {} THEN NormError("KeyError")
    ELSE IF Norm_date_error(table, Norm_date_column(table.columns), 1) # ""
    THEN NormError(Norm_date_error(table, Norm_date_column(table.columns), 1))
    ELSE IF "Description" \notin table.columns THEN NormError("KeyError")
    ELSE IF "Amount" \notin table.columns /\ Norm_amount_error(table) # ""
    THEN NormError(Norm_amount_error(table))
    ELSE IF NumericColumn(table, "Description") THEN NormError("AttributeError")
    ELSE Normalized(SelectSeq([k \in DOMAIN table.rows |->
                                  Norm_row(file_name, table.columns, table.rows[k])],
                              LAMBDA row : ~Norm_is_balance_row(row)))

\* process_pdf_to_normalized_csv on the records of the extractor.
process_pdf_to_normalized_csv(file_name, txs) ==
    IF extract_to_csv(txs).raised THEN NormRaised
    ELSE normalize_csv(file_name, extract_to_csv(txs))

\* repr of a float amount as to_csv writes it: "4.75", "4.5", "12.0"
FloatRepr(cents) ==
    (IF cents < 0 THEN "-" ELSE "")
    \o IntToStr(Abs(cents) \div 100) \o "."
    \o DecimalDigit((Abs(cents) % 100) \div 10)
    \o (IF Abs(cents) % 10 = 0 THEN "" ELSE DecimalDigit(Abs(cents) % 10))

NormalizedColumns == {"Date", "File", "Description", "Amount"}

\* normalized_df.to_csv(index=False) read back as a table of cell texts.
to_csv_row(row) ==
    [c \in NormalizedColumns |->
        CASE c = "Date" -> row.Date
          [] c = "File" -> row.File
          [] c = "Description" -> row.Description
          [] c = "Amount" -> IF row.Amount = <<>> THEN "" ELSE FloatRepr(row.Amount[1])]

to_csv(table_rows) ==
    CsvTable(NormalizedColumns, [k \in DOMAIN table_rows |-> to_csv_row(table_rows[k])])

GroupIdle == spans = <<>> /\ rows = <<>>
ExtractIdle == doc = <<>> /\ period = <<>> /\ transactions = <<>>
NormIdle == normalized = <<>>
ClsIdle ==
    /\ category_training = <<>> /\ category_amount_training = <<>>
    /\ category_lookup = <<>> /\ category_clusters = <<>>
    /\ result = <<>> /\ calls = <<>>

GroupInit ==
    /\ pc = "start"
    /\ spans \in SeqsUpTo(GroupSpan, MaxSpans)
    /\ rows = <<>>
    /\ ExtractIdle /\ NormIdle /\ ClsIdle

\* A caller hands the list over as it is.
GroupAsGiven ==
    /\ pc = "start"
    /\ rows' = group_spans_by_row(spans, Y_TOLERANCE)
    /\ pc' = "grouped"
    /\ UNCHANGED <<spans, extractVars, normalized, clsVars>>

\* The extractors sort by (y, x) first and then group.
GroupSorted ==
    /\ pc = "start"
    /\ spans' = SortByYX(spans)
    /\ rows' = group_spans_by_row(SortByYX(spans), Y_TOLERANCE)
    /\ pc' = "sortedGrouped"
    /\ UNCHANGED <<extractVars, normalized, clsVars>>

GroupNext == GroupAsGiven \/ GroupSorted

SpecGroup == GroupInit /\ [][GroupNext]_vars

(***************************************************************************)
(* The card-style statement given to the extractor: one page of rows, each *)
(* built from a template and placed below the row before it.               *)
(***************************************************************************)
MaxVisaRows == 3

ROW_PITCH == 7      \* the distance between two consecutive lines of the table
SECTION_GAP == 16   \* the distance to a line that starts after a wider gap

VisaKinds == {"TX", "TXFUSED", "TXBADDAY", "FX", "FXFAR", "CONT", "CONTFAR",
              "NUM", "HDR", "CARD"}

Cell(t, x) == [text |-> t, x |-> x]

VisaTemplate(kind) ==
    CASE kind = "TX" ->
           <<Cell("MAR 14", 50), Cell("MAR 15", 100), Cell("STARBUCKS", 150),
             Cell("4.75", 330)>>
      [] kind = "TXFUSED" ->
           <<Cell("DEC 28", 50), Cell("JAN 2 PAYMENT", 100), Cell("-$1,234.50", 330)>>
      [] kind = "TXBADDAY" ->
           <<Cell("FEB 30", 50), Cell("MAR 1", 100), Cell("REFUND", 150),
             Cell("1.00", 330)>>
      [] kind \in {"FX", "FXFAR"} ->
           <<Cell("Foreign Currency-USD 23.50", 150),
             Cell("Exchange rate-1.362000", 260)>>
      [] kind \in {"CONT", "CONTFAR"} -> <<Cell("TORONTO ON", 150)>>
      [] kind = "NUM" -> <<Cell("74064490", 150)>>
      [] kind = "AMT" -> <<Cell("PREVIOUS BALANCE", 150), Cell("$1,000.00", 330)>>
      [] kind = "HDR" ->
           <<Cell("TRANSACTION", 50), Cell("POSTING", 100),
             Cell("ACTIVITY DESCRIPTION", 150), Cell("AMOUNT ($)", 330),
             Cell("NEW BALANCE", 400)>>
      [] kind = "CARD" ->
           <<Cell("JOHN DOE", 50), Cell("4516 07** **** 4390", 150),
             Cell("PRIMARY", 330)>>

KindGap(kind) == IF kind \in {"FXFAR", "CONTFAR"} THEN SECTION_GAP ELSE ROW_PITCH

PlaceRow(cells, y) ==
    [i \in DOMAIN cells |-> [text |-> cells[i].text, x |-> cells[i].x, y |-> y]]

\* The spans of a page whose rows follow kinds, the first one below y.
RECURSIVE VisaPage(_, _)
VisaPage(kinds, y) ==
    IF kinds = <<>> THEN <<>>
    ELSE PlaceRow(VisaTemplate(Head(kinds)), y + KindGap(Head(kinds)))
         \o VisaPage(Tail(kinds), y + KindGap(Head(kinds)))

PAGE_TOP == 100

StatementPeriod(s, e) == [start_date |-> s, end_date |-> e]
VisaPeriods == {StatementPeriod(Date(2025, 2, 20), Date(2025, 3, 20)),
                StatementPeriod(Date(2024, 12, 12), Date(2025, 1, 13))}

VisaInit ==
    /\ pc = "start"
    /\ doc \in {<<VisaPage(ks, PAGE_TOP)>> : ks \in SeqsUpTo(VisaKinds, MaxVisaRows)}
    /\ period \in VisaPeriods
    /\ transactions = Emitted(<<>>)
    /\ GroupIdle /\ NormIdle /\ ClsIdle

VisaExtract ==
    /\ pc = "start"
    /\ transactions' = Visa_extract(doc, period.start_date, period.end_date)
    /\ pc' = "extracted"
    /\ UNCHANGED <<doc, period, groupVars, normalized, clsVars>>

VisaNext == VisaExtract

SpecVisa == VisaInit /\ [][VisaNext]_vars

\* The rows of the first page as the merge pass receives them.
VisaInputRows == group_spans_by_row(SortByYX(Visa_collect_spans(doc[1])), Y_TOLERANCE)

VisaIsAnnotation(row) == Visa_CURRENCY_INFO_REGEX(RowText(row)).ok

\* A row that is a transaction by itself: three spans or more, a date first,
\* an amount last, a date at the start of the second span, no header word, no
\* card number, no annotation, and dates that exist in the statement's years.
VisaIsTransaction(row) ==
    /\ Len(row) >= 3
    /\ ~VisaIsAnnotation(row)
    /\ ~CARD_NUMBER_SECTION_REGEX(RowText(row))
    /\ ~Visa_is_header(RowText(row))
    /\ Visa_TRANSACTION_DATE_REGEX(row[1].text)
    /\ Visa_AMOUNT_REGEX(row[Len(row)].text)
    /\ SECOND_DATE_REGEX(Upper(row[2].text)).ok
    /\ LET s == MinusDays(period.start_date, POSTING_SKEW_DAYS)
           e == period.end_date
       IN  /\ Visa_parse_date(row[1].text, s, e).tag = "date"
           /\ Visa_parse_date(SECOND_DATE_REGEX(Upper(row[2].text)).group1, s, e).tag = "date"

VisaOwnDescription(row) == Visa_description(row, SECOND_DATE_REGEX(Upper(row[2].text)))

VisaAnnotationText(row) ==
    LET cm == Visa_CURRENCY_INFO_REGEX(RowText(row))
    IN  " (" \o cm.foreign_amount \o " " \o cm.currency_code \o " @" \o cm.exchange_rate \o ")"

StartsWith(s, prefix) == Len(s) >= Len(prefix) /\ SubSeq(s, 1, Len(prefix)) = prefix

(***************************************************************************)
(* C3: on a page made of transaction rows and foreign-currency annotation  *)
(* rows only, one record is emitted per transaction row; the record of a   *)
(* transaction row directly followed by an annotation row carries its own  *)
(* description with " (<amount> <currency> @<rate>)" appended, and the     *)
(* record of a transaction row not followed by one carries its own         *)
(* description alone.                                                      *)
(***************************************************************************)
C3_AnnotationAppended ==
    LET in  == VisaInputRows
        txi == {i \in DOMAIN in : VisaIsTransaction(in[i])}
        Nth(i) == Cardinality({j \in txi : j <= i})
    IN  (/\ pc = "extracted"
         /\ \A i \in DOMAIN in : VisaIsTransaction(in[i]) \/ VisaIsAnnotation(in[i]))
        => /\ ~transactions.raised
           /\ Len(transactions.txs) = Cardinality(txi)
           /\ \A i \in txi :
                IF i + 1 \in DOMAIN in /\ VisaIsAnnotation(in[i + 1])
                THEN StartsWith(transactions.txs[Nth(i)].description,
                                VisaOwnDescription(in[i]) \o VisaAnnotationText(in[i + 1]))
                ELSE transactions.txs[Nth(i)].description = VisaOwnDescription(in[i])

(***************************************************************************)
(* C1: group_spans_by_row partitions its input: every input span occurs in *)
(* the rows exactly as often as in the input (none lost, duplicated or     *)
(* shared), no row is empty, and an empty input gives an empty output.     *)
(***************************************************************************)
C1_Partition ==
    pc \in {"grouped", "sortedGrouped"} =>
        /\ \A s \in GroupSpan : Count(s, Flatten(rows)) = Count(s, spans)
        /\ Len(Flatten(rows)) = Len(spans)
        /\ \A r \in DOMAIN rows : rows[r] # <<>>
        /\ (spans = <<>> => rows = <<>>)

C1_Witness ==
    /\ pc = "grouped"
    /\ Len(rows) = 2
    /\ Len(spans) = 3
    /\ spans[1].y > spans[2].y
    /\ \E r \in DOMAIN rows : Len(rows[r]) = 2

(***************************************************************************)
(* C2: for spans in (y, x) order, every span of a row lies within          *)
(* Y_TOLERANCE of the row's first span (the smallest y of the row, fixed   *)
(* when the row is opened), the reference y of consecutive rows differ by  *)
(* more than Y_TOLERANCE, and every row is sorted by non-decreasing x.     *)
(***************************************************************************)
RowRefY(row) == CHOOSE y \in {row[i].y : i \in DOMAIN row} :
                    \A i \in DOMAIN row : y <= row[i].y

C2_FirstSpanReference ==
    pc = "sortedGrouped" =>
        /\ \A r \in DOMAIN rows : \A i \in DOMAIN rows[r] :
              Abs(rows[r][i].y - RowRefY(rows[r])) <= Y_TOLERANCE
        /\ \A r \in DOMAIN rows : r > 1 =>
              RowRefY(rows[r]) - RowRefY(rows[r - 1]) > Y_TOLERANCE
        /\ \A r \in DOMAIN rows : \A i \in DOMAIN rows[r] :
              i > 1 => rows[r][i - 1].x <= rows[r][i].x

\* The drift case: the last span of a row and the first span of the next are
\* within the tolerance of each other, yet the second one opened a new row.
C2_Witness ==
    /\ pc = "sortedGrouped"
    /\ Len(rows) = 2
    /\ Len(rows[1]) = 2
    /\ \E i \in DOMAIN rows[1] :
          /\ rows[2][1].y - rows[1][i].y <= Y_TOLERANCE
          /\ rows[2][1].y - RowRefY(rows[1]) > Y_TOLERANCE
    /\ rows[1][1].x < rows[1][2].x
    /\ rows[1][1].y > rows[1][2].y

(***************************************************************************)
(* Account statements: one page of up to MaxChqRows lines.                 *)
(***************************************************************************)
MaxChqRows == 3

ChqKinds == {"HEAD", "DESC", "DESCFAR", "AMTW", "AMTWFAR", "AMTD", "FULL",
             "BADDAY", "BAL", "MONTH", "HDR"}

ChqTemplate(kind) ==
    CASE kind = "HEAD" ->
           <<Cell("01 May", 50), Cell("Online Banking transfer", 100)>>
      [] kind \in {"DESC", "DESCFAR"} ->
           <<Cell("RBPDA00012", 20), Cell(" Utility Bill Pmt ", 100)>>
      [] kind \in {"AMTW", "AMTWFAR"} ->
           <<Cell("HYDRO ONE", 100), Cell("120.00", 350), Cell("1,880.00", 520)>>
      [] kind = "AMTD" -> <<Cell("Payroll", 100), Cell("2,000.00", 450)>>
      [] kind = "FULL" ->
           <<Cell("2 Jan", 50), Cell("Interac purchase", 100), Cell("45.10", 350)>>
      [] kind = "BADDAY" ->
           <<Cell("31 Apr", 50), Cell("Cheque", 100), Cell("10.00", 350)>>
      [] kind = "BAL" -> <<Cell("Balance forward", 100), Cell("500.00", 520)>>
      [] kind = "MONTH" -> <<Cell("May", 50)>>
      [] kind = "OPEN" ->
           <<Cell("11 Apr", 50), Cell("Opening Balance", 100), Cell("500.00", 520)>>
      [] kind = "HDR" ->
           <<Cell("Date", 50), Cell("Description", 100), Cell("Withdrawals ($)", 330),
             Cell("Deposits ($)", 430), Cell("Balance ($)", 520)>>

ChqKindGap(kind) == IF kind \in {"DESCFAR", "AMTWFAR"} THEN SECTION_GAP ELSE ROW_PITCH

RECURSIVE ChqPage(_, _)
ChqPage(kinds, y) ==
    IF kinds = <<>> THEN <<>>
    ELSE PlaceRow(ChqTemplate(Head(kinds)), y + ChqKindGap(Head(kinds)))
         \o ChqPage(Tail(kinds), y + ChqKindGap(Head(kinds)))

ChqPeriods == {StatementPeriod(Date(2025, 4, 11), Date(2025, 5, 12)),
               StatementPeriod(Date(2024, 12, 12), Date(2025, 1, 13))}

ChqInit ==
    /\ pc = "start"
    /\ doc \in {<<ChqPage(ks, PAGE_TOP)>> : ks \in SeqsUpTo(ChqKinds, MaxChqRows)}
    /\ period \in ChqPeriods
    /\ transactions = Emitted(<<>>)
    /\ GroupIdle /\ NormIdle /\ ClsIdle

ChqExtract ==
    /\ pc = "start"
    /\ transactions' = Chq_extract(doc, period.start_date, period.end_date)
    /\ pc' = "extracted"
    /\ UNCHANGED <<doc, period, groupVars, normalized, clsVars>>

ChqNext == ChqExtract

SpecChq == ChqInit /\ [][ChqNext]_vars

\* The rows of the first page as the merge pass receives them.
ChqInputRows == group_spans_by_row(SortByYX(Chq_collect_spans(doc[1])), Y_TOLERANCE)

\* A dated head row: a date that exists in the statement's years, no amount,
\* no header phrase.
ChqIsDatedHead(row) ==
    /\ Chq_has_date(row)
    /\ ~Chq_has_amounts(row)
    /\ ~Chq_is_header(row)
    /\ \A k \in DOMAIN row :
         DATE_SIMPLE_REGEX(row[k].text)
           => Chq_parse_date(row[k].text, period.start_date, period.end_date).tag = "date"

ChqIsDescriptionOnly(row) ==
    ~Chq_has_date(row) /\ ~Chq_has_amounts(row) /\ ~Chq_is_header(row)

ChqIsAmountRow(row) ==
    ~Chq_has_date(row) /\ Chq_has_amounts(row) /\ ~Chq_is_header(row)

ChqNear(prev, row) == Abs(row[1].y - prev[Len(prev)].y) <= Chq_MAX_MERGE_GAP

\* The texts of a row that are neither its date nor an amount.
ChqWords(row) ==
    RowTexts(SelectSeq(row, LAMBDA sp : /\ ~DATE_SIMPLE_REGEX(sp.text)
                                        /\ ~Chq_AMOUNT_REGEX(sp.text)))

ChqIsTriple(r1, r2, r3) ==
    /\ ChqIsDatedHead(r1) /\ ChqIsDescriptionOnly(r2) /\ ChqIsAmountRow(r3)
    /\ ChqNear(r1, r2) /\ ChqNear(r2, r3)

\* C4: a dated head row without amount, a description-only row and a row
\* with the amount, each within 15 units of the row before, none with a
\* header phrase and the followers without a date, come out of extract as
\* exactly one transaction whose description joins the text of the three
\* rows.  Stated for a page made of k such groups: k records, the j-th with
\* the joined description of the j-th group.
C4_MultiLineMerged ==
    LET in == ChqInputRows
        k  == Len(in) \div 3
    IN  (/\ pc = "extracted"
         /\ Len(in) = 3 * k /\ k >= 1
         /\ \A j \in 1..k : ChqIsTriple(in[3 * j - 2], in[3 * j - 1], in[3 * j]))
        => /\ ~transactions.raised
           /\ Len(transactions.txs) = k
           /\ \A j \in 1..k :
                transactions.txs[j].Description =
                    JoinSp(ChqWords(in[3 * j - 2]) \o ChqWords(in[3 * j - 1])
                           \o ChqWords(in[3 * j]))

C4_Witness ==
    LET in == ChqInputRows
    IN  /\ pc = "extracted"
        /\ Len(in) = 3
        /\ ChqIsTriple(in[1], in[2], in[3])
        /\ Len(transactions.txs) = 1
        /\ transactions.txs[1].Description =
             "Online Banking transfer Utility Bill Pmt HYDRO ONE"

(***************************************************************************)
(* The classifiers: set_category and get_category of each Classifier in    *)
(* any order, at most MaxCalls training rows.  The training rows are also  *)
(* the rows of the categories file that the rbc2 categorizer loads.        *)
(***************************************************************************)
MaxCalls == 3        \* training rows given to bank_statement_processor's Classifier
MaxRbc2Calls == 2    \* training rows given to rbc2's Classifier

ClsDescriptions == {"STARBUCKS #1234", "STARBUCKS #5678", "NETFLIX.COM", "", "123456"}
ClsTrainDescriptions == {"STARBUCKS #1234", "NETFLIX.COM"}
ClsAmounts == {-1250, -1400, 4575}
ClsTrainAmounts == {-1250, 4575}
ClsCategories == {"Expenses / Meals", "Expenses / Media"}

\* The scores fuzz.WRatio may give, as far as each threshold tells them
\* apart: 89.5, 90, 100 around 90 and 79, 79.5, 80, 100 around 80.
BspScores == {Points(FUZZY_THRESHOLD) - 1, Points(FUZZY_THRESHOLD), Points(100)}
Rbc2SetScores ==
    {Points(SET_CLUSTER_THRESHOLD) - 1, Points(SET_CLUSTER_THRESHOLD), Points(100)}
Rbc2GetScores ==
    {Points(GET_CLUSTER_THRESHOLD - 1), Points(GET_CLUSTER_THRESHOLD) - 1,
     Points(GET_CLUSTER_THRESHOLD), Points(100)}

\* normalize_description and get_category_keys over the descriptions in use
NormOf == [d \in ClsDescriptions |-> normalize_description(d)]
CatNormOf == [d \in ClsDescriptions |-> Cat_normalized_description(d)]
ClusterTextOf == [d \in ClsDescriptions |-> Rbc2_cluster_text(d)]

\* fuzz.WRatio gives 0 when one of the two strings is empty.
Rbc2QueryScores(d) == IF ClusterTextOf[d] = "" THEN {0} ELSE Rbc2GetScores

\* The highest of the scores of the candidates, 0 without candidate.
TopScore(scores, candidates) ==
    IF candidates = {} THEN 0
    ELSE CHOOSE v \in {scores[i] : i \in candidates} :
            \A i \in candidates : scores[i] <= v

\* The record of a query: its arguments, the highest score the fuzzy stage
\* saw (0 when the stage was not reached) and the answer.
Asked(description, amount, top, answer) ==
    [description |-> description, amount |-> amount,
     top |-> IF answer.stage \in {"fuzzy", "none"} THEN top ELSE 0,
     answer |-> answer]
NoResult == Asked("", 0, 0, None(""))

BspCls == [training |-> category_training,
           amount_training |-> category_amount_training]
BspCandidates ==
    {i \in DOMAIN category_amount_training :
        Cardinality(category_amount_training[i].categories) = 1}

ClsQueryIdle ==
    /\ pc = "ready"
    /\ result = NoResult
    /\ calls = <<>>
    /\ GroupIdle /\ ExtractIdle /\ NormIdle

BspInit ==
    /\ ClsQueryIdle
    /\ category_training = EmptyDict
    /\ category_amount_training = <<>>
    /\ category_lookup = <<>> /\ category_clusters = <<>>

BspSetCategory ==
    \E d \in ClsTrainDescriptions, a \in ClsTrainAmounts, c \in ClsCategories :
        /\ pc = "ready"
        /\ Len(calls) < MaxCalls
        /\ category_training' = Bsp_trained(category_training, NormOf[d], a, c)
        /\ category_amount_training' =
               Bsp_amount_trained(category_amount_training, NormOf[d], a, c)
        /\ calls' = Append(calls, [description |-> d, amount |-> a, category |-> c])
        /\ result' = NoResult
        /\ pc' = "ready"
        /\ UNCHANGED <<groupVars, extractVars, normalized, category_lookup,
                       category_clusters>>

\* The queries leave the classifier as it is: one query after each training
\* step covers every query.
BspGetCategory ==
    \E d \in ClsDescriptions, a \in ClsAmounts :
      \E scores \in [DOMAIN category_amount_training -> BspScores] :
        /\ pc = "ready"
        /\ result' = Asked(d, a, TopScore(scores, BspCandidates),
                           Bsp_lookup(BspCls, NormOf[d], a, scores))
        /\ pc' = "answered"
        /\ UNCHANGED <<groupVars, extractVars, normalized, category_training,
                       category_amount_training, category_lookup,
                       category_clusters, calls>>

\* categorize_transaction on the lookup that initialize_category_lookup builds
\* from the training rows.
CatCategorize ==
    \E d \in ClsDescriptions, a \in ClsAmounts :
        /\ pc = "ready"
        /\ result' = Asked(d, a, 0,
               Cat_lookup(initialize_category_lookup(calls), CatNormOf[d], a))
        /\ pc' = "categorized"
        /\ UNCHANGED <<groupVars, extractVars, normalized, category_training,
                       category_amount_training, category_lookup,
                       category_clusters, calls>>

BspNext == BspSetCategory \/ BspGetCategory \/ CatCategorize

SpecCls == BspInit /\ [][BspNext]_vars

Rbc2Init ==
    /\ ClsQueryIdle
    /\ category_lookup = EmptyDict
    /\ category_clusters = <<>>
    /\ category_training = <<>> /\ category_amount_training = <<>>

Rbc2SetCategory ==
    \E d \in ClsTrainDescriptions, a \in ClsTrainAmounts, c \in ClsCategories :
      \E scores \in [DOMAIN category_clusters -> Rbc2SetScores] :
        /\ pc = "ready"
        /\ Len(calls) < MaxRbc2Calls
        /\ category_lookup' = Rbc2_trained(category_lookup, NormOf[d], a, c)
        /\ category_clusters' =
               Rbc2_set_category_clusters(category_clusters, d, a, c, scores)
        /\ calls' = Append(calls, [description |-> d, amount |-> a, category |-> c])
        /\ result' = NoResult
        /\ pc' = "ready"
        /\ UNCHANGED <<groupVars, extractVars, normalized, category_training,
                       category_amount_training>>

Rbc2GetCategory ==
    \E d \in ClsDescriptions, a \in ClsAmounts :
      \E scores \in [DOMAIN category_clusters -> Rbc2QueryScores(d)] :
        /\ pc = "ready"
        /\ result' = Asked(d, a, TopScore(scores, DOMAIN category_clusters),
                           Rbc2_lookup(category_lookup, category_clusters, d,
                                       NormOf[d], a, scores))
        /\ pc' = "rbc2_answered"
        /\ UNCHANGED <<groupVars, extractVars, normalized, category_training,
                       category_amount_training, category_lookup,
                       category_clusters, calls>>

Rbc2Next == Rbc2SetCategory \/ Rbc2GetCategory \/ CatCategorize

SpecCls2 == Rbc2Init /\ [][Rbc2Next]_vars

EndsWith(s, suffix) ==
    Len(s) >= Len(suffix) /\ SubSeq(s, Len(s) - Len(suffix) + 1, Len(s)) = suffix

\* The categories the training rows so far gave to an exact key.
BspSeen(key) ==
    {calls[i].category : i \in {j \in DOMAIN calls :
        Bsp_exact_key(calls[j].amount, NormOf[calls[j].description]) = key}}

\* The keys of the query that result answers.
BspQueryNorm == NormOf[result.description]
BspQueryExact == Bsp_exact_key(result.amount, BspQueryNorm)

\* C5: after any training, get_category(d, a) returns c, unmarked, when the
\* training rows with the exact key of (d, a) all carry the one category c;
\* when rows with that exact key carry different categories the answer is
\* None or carries the marker, never an unmarked category.
C5_ExactRoundTrip ==
    pc = "answered" =>
        /\ Cardinality(BspSeen(BspQueryExact)) = 1
             => /\ result.answer.found
                /\ result.answer.value = Only(BspSeen(BspQueryExact))
        /\ Cardinality(BspSeen(BspQueryExact)) >= 2
             => \/ ~result.answer.found
                \/ EndsWith(result.answer.value, MARKER)

C5_Witness ==
    /\ pc = "answered"
    /\ Len(calls) = 3
    /\ Cardinality({calls[i].category : i \in DOMAIN calls}) = 2
    /\ Cardinality(BspSeen(BspQueryExact)) = 1
    /\ result.answer.value = Only(BspSeen(BspQueryExact))

\* The answer came from the fuzzy stage: neither the exact key nor the bare
\* key holds exactly one category.
BspReachedFuzzy ==
    /\ Cardinality(DictGet(category_training, BspQueryExact)) # 1
    /\ Cardinality(DictGet(category_training, BspQueryNorm)) # 1

\* C8: an answer of get_category ends with the marker exactly when the fuzzy
\* stage gave it; the exact and bare stages return a category as the training
\* rows stored it, the fuzzy stage returns the category of an entry of the
\* coarse-amount dictionary followed by the marker.
C8_MarkerIffFuzzy ==
    (pc = "answered" /\ result.answer.found) =>
        /\ EndsWith(result.answer.value, MARKER) <=> BspReachedFuzzy
        /\ result.answer.stage = "fuzzy" <=> BspReachedFuzzy
        /\ ~BspReachedFuzzy
             => result.answer.value \in {calls[i].category : i \in DOMAIN calls}
        /\ BspReachedFuzzy
             => \E i \in DOMAIN category_amount_training :
                  \E c \in category_amount_training[i].categories :
                     result.answer.value = c \o MARKER

C8_Witness ==
    /\ pc = "answered"
    /\ result.answer.found
    /\ BspReachedFuzzy
    /\ \E i \in DOMAIN calls : result.answer.value = calls[i].category \o MARKER

\* Every category set holds what it held before.
\* The categories the training rows gave to a key of the categorizer.
CatSeen(key) ==
    {calls[i].category : i \in {j \in DOMAIN calls :
        key \in {CatNormOf[calls[j].description],
                 Cat_key_with_amount(calls[j].amount, CatNormOf[calls[j].description])}}}

\* The categorizer answers only from a key that the training rows gave one
\* category.
CatAmbiguousSilent ==
    (pc = "categorized" /\ result.answer.found)
        => Cardinality(CatSeen(result.answer.key)) = 1

BspSetsGrow ==
    /\ \A k \in DOMAIN category_training :
         /\ k \in DOMAIN category_training'
         /\ category_training[k] \subseteq category_training'[k]
    /\ \A i \in DOMAIN category_amount_training :
         /\ i \in DOMAIN category_amount_training'
         /\ category_amount_training'[i].key = category_amount_training[i].key
         /\ category_amount_training[i].categories
              \subseteq category_amount_training'[i].categories

\* An ambiguous key gives no answer at its stage, and the entry the fuzzy
\* stage matched holds one category.
BspAmbiguousSilent ==
    pc = "answered" =>
        /\ Cardinality(DictGet(category_training, BspQueryExact)) >= 2
             => result.answer.stage # "exact"
        /\ Cardinality(DictGet(category_training, BspQueryNorm)) >= 2
             => result.answer.stage # "bare"
        /\ result.answer.stage = "fuzzy"
             => \A i \in DOMAIN category_amount_training :
                  category_amount_training[i].key = result.answer.matched
                    => Cardinality(category_amount_training[i].categories) = 1

\* C9: the category set under each key only grows over set_category calls,
\* so an ambiguous key stays ambiguous; an ambiguous key never answers at the
\* exact or the bare stage, and the fuzzy stage never answers from a
\* coarse-amount entry that holds more than one category; the categorizer,
\* which drops every key with two or more categories when it loads the
\* training rows, never answers from such a key either.
C9_AmbiguityPersists ==
    [][BspSetsGrow]_vars /\ []BspAmbiguousSilent /\ []CatAmbiguousSilent

C9_Witness ==
    /\ pc = "answered"
    /\ Cardinality(DictGet(category_training, BspQueryExact)) = 2
    /\ Cardinality(DictGet(category_training, BspQueryNorm)) = 2
    /\ result.answer.stage = "fuzzy"
    /\ \E i \in DOMAIN category_amount_training :
         Cardinality(category_amount_training[i].categories) = 2

\* The fuzzy stage of bank_statement_processor's get_category answers only
\* from a score of at least 90, and with every score below 90 it gives None.
BspFuzzyRespectsThreshold ==
    pc = "answered" =>
        /\ result.answer.stage = "fuzzy"
             => result.answer.score >= Points(FUZZY_THRESHOLD)
        /\ (BspReachedFuzzy /\ result.top < Points(FUZZY_THRESHOLD))
             => ~result.answer.found

\* The keys of the query that result answers, in rbc2's Classifier.
Rbc2QueryNorm == NormOf[result.description]
Rbc2QueryAmountKey == Rbc2_amount_key(result.amount, Rbc2QueryNorm)
Rbc2ReachedFuzzy ==
    /\ Cardinality(DictGet(category_lookup, Rbc2QueryAmountKey)) # 1
    /\ Cardinality(DictGet(category_lookup, Rbc2QueryNorm)) # 1

\* C7: the fuzzy stage never returns a category unless the score of the
\* chosen candidate is at least the threshold, whatever the score (79.5
\* included); a query whose best score is below the threshold gets None.
\* Stated for rbc2's get_category (threshold 80).
C7_FuzzyRespectsThreshold ==
    pc = "rbc2_answered" =>
        /\ result.answer.stage = "fuzzy"
             => result.answer.score >= Points(GET_CLUSTER_THRESHOLD)
        /\ (Rbc2ReachedFuzzy /\ result.top < Points(GET_CLUSTER_THRESHOLD))
             => ~result.answer.found

CatQueryNorm == CatNormOf[result.description]
CatQueryAmountKey == Cat_key_with_amount(result.amount, CatQueryNorm)

\* C6: lookup order.  When the amount-qualified key of the query is absent
\* and the bare key holds exactly one category, that category is returned
\* unmarked whatever the amount; when neither key is present and no fuzzy
\* candidate reaches the threshold the answer is None.  Stated for rbc2's
\* get_category and for the categorizer's categorize_transaction.
C6_LookupOrder ==
    /\ pc = "rbc2_answered" =>
         /\ (/\ Rbc2QueryAmountKey \notin DOMAIN category_lookup
             /\ Cardinality(DictGet(category_lookup, Rbc2QueryNorm)) = 1)
              => /\ result.answer.found
                 /\ result.answer.value = Only(DictGet(category_lookup, Rbc2QueryNorm))
         /\ (/\ Rbc2QueryAmountKey \notin DOMAIN category_lookup
             /\ Rbc2QueryNorm \notin DOMAIN category_lookup
             /\ result.top < Points(GET_CLUSTER_THRESHOLD))
              => ~result.answer.found
    /\ pc = "categorized" =>
         /\ (CatSeen(CatQueryAmountKey) = {} /\ Cardinality(CatSeen(CatQueryNorm)) = 1)
              => /\ result.answer.found
                 /\ result.answer.value = Only(CatSeen(CatQueryNorm))
         /\ (CatSeen(CatQueryAmountKey) = {} /\ CatSeen(CatQueryNorm) = {})
              => ~result.answer.found

(***************************************************************************)
(* The rbc2 pipeline on a card statement: extract, then normalize.         *)
(***************************************************************************)
PDF_NAME == "visa-2025-03.pdf"

NormInit ==
    /\ pc = "start"
    /\ doc \in {<<VisaPage(ks, PAGE_TOP)>> : ks \in SeqsUpTo(VisaKinds, MaxVisaRows)}
    /\ period \in VisaPeriods
    /\ transactions = Emitted(<<>>)
    /\ GroupIdle /\ NormIdle /\ ClsIdle

\* VisaStatementExtractor.extract; the statement period of the first page
\* gives start_year and end_year.
Rbc2VisaExtract ==
    /\ pc = "start"
    /\ transactions' = Rbc2Visa_extract(doc, period.start_date.year, period.end_date.year)
    /\ pc' = "extracted"
    /\ UNCHANGED <<doc, period, groupVars, normalized, clsVars>>

\* extract_to_csv and normalize_csv on what the extractor returned.
Rbc2Normalize ==
    /\ pc = "extracted"
    /\ ~transactions.raised
    /\ normalized' = process_pdf_to_normalized_csv(PDF_NAME, transactions.txs)
    /\ pc' = "normalized"
    /\ UNCHANGED <<doc, period, transactions, groupVars, clsVars>>

NormNext == Rbc2VisaExtract \/ Rbc2Normalize

SpecNorm == NormInit /\ [][NormNext]_vars

\* The rows of the first page as rbc2's row loop receives them.
Rbc2InputRows == group_spans_by_row(SortByYX(Visa_collect_spans(doc[1])), Y_TOLERANCE)

\* A row that rbc2's extractor turns into a record.
Rbc2IsTransaction(row) ==
    /\ Len(row) >= 3
    /\ ~CurrencySearch(RowText(row), FALSE).ok
    /\ ~CARD_NUMBER_SECTION_REGEX(RowText(row))
    /\ ~Visa_is_header(RowText(row))
    /\ Rbc2Visa_first_date(Upper(row[1].text))
    /\ Visa_AMOUNT_REGEX(row[Len(row)].text)
    /\ SECOND_DATE_REGEX(Upper(row[2].text)).ok

\* The amounts printed on the transaction rows of the page, in cents.
Rbc2Printed ==
    LET txrows == SelectSeq(Rbc2InputRows, Rbc2IsTransaction)
    IN  [k \in DOMAIN txrows |-> AmountCents(txrows[k][Len(txrows[k])].text)]

(***************************************************************************)
(* C10: through rbc2's extract followed by normalize_csv the sign printed  *)
(* on a card statement is inverted: a charge printed as a positive amount  *)
(* has a negative Amount in the normalized output, and a payment or credit *)
(* printed as a negative amount has a positive Amount.                     *)
(***************************************************************************)
C10_VisaSignInverted ==
    (/\ pc = "normalized"
     /\ ~normalized.raised
     /\ Len(normalized.rows) = Len(Rbc2Printed))
      => \A k \in DOMAIN normalized.rows :
            /\ normalized.rows[k].Amount # <<>>
            /\ Rbc2Printed[k] > 0 => normalized.rows[k].Amount[1] < 0
            /\ Rbc2Printed[k] < 0 => normalized.rows[k].Amount[1] > 0

(***************************************************************************)
(* normalize_csv on a CSV file: an account-style table (Date, Description, *)
(* Withdrawals, Deposits, Balance, one of the amount columns possibly      *)
(* missing) or a table already in the normalized columns.                  *)
(***************************************************************************)
MaxCsvRows == 2

CSV_PDF_NAME == "chequing-2025-03.pdf"

AccountColumns == {"Date", "Description", "Withdrawals", "Deposits", "Balance"}

AccountRow(date, description, withdrawals, deposits) ==
    [c \in AccountColumns |->
        CASE c = "Date" -> date
          [] c = "Description" -> description
          [] c = "Withdrawals" -> withdrawals
          [] c = "Deposits" -> deposits
          [] c = "Balance" -> "512.34"]

AccountKinds == {"DEP", "WD", "BOTH", "NEITHER", "OPENING", "LONGDATE", "SLASHDATE",
                 "BADDATE", "NODATE", "NODESC", "TWOLINES"}

AccountCsvRow(kind) ==
    CASE kind = "DEP"       -> AccountRow("2025-03-14", "PAYROLL DEPOSIT", "", "100.00")
      [] kind = "WD"        -> AccountRow("2025-03-15", "UTILITY BILL", "12.50", "")
      [] kind = "BOTH"      -> AccountRow("2025-03-16", "TRANSFER", "40.00", "15.25")
      [] kind = "NEITHER"   -> AccountRow("2025-03-17", "MEMO", "", "")
      [] kind = "OPENING"   -> AccountRow("2025-03-01", "Opening Balance", "", "")
      [] kind = "LONGDATE"  -> AccountRow("March 18, 2025", "CHEQUE", "7", "")
      [] kind = "SLASHDATE" -> AccountRow("2025/3/9", "INTEREST", "", "0.05")
      [] kind = "BADDATE"   -> AccountRow("14-03-2025", "ATM WITHDRAWAL", "60.00", "")
      [] kind = "NODATE"    -> AccountRow("", "SERVICE FEE", "4.00", "")
      [] kind = "NODESC"    -> AccountRow("2025-03-19", "", "", "3.10")
      [] kind = "TWOLINES"  -> AccountRow("2025-03-20", "BILL PAYMENT\nHYDRO", "80.10", "")

NormalizedKinds == {"CREDIT", "DEBIT", "WHOLE", "NOAMOUNT", "NODESC", "CLOSING", "BADDATE",
                    "NODATE"}

NormalizedRow(date, description, amount) ==
    [c \in NormalizedColumns |->
        CASE c = "Date" -> date
          [] c = "File" -> "visa-2025-03.pdf"
          [] c = "Description" -> description
          [] c = "Amount" -> amount]

NormalizedCsvRow(kind) ==
    CASE kind = "CREDIT"   -> NormalizedRow("2025-03-14", "PAYMENT", "1234.50")
      [] kind = "DEBIT"    -> NormalizedRow("2025-03-15", "STARBUCKS", "-4.75")
      [] kind = "WHOLE"    -> NormalizedRow("2025-03-16", "PARKING", "-12.0")
      [] kind = "NOAMOUNT" -> NormalizedRow("2025-03-17", "MEMO", "")
      [] kind = "NODESC"   -> NormalizedRow("2025-03-18", "", "9.99")
      [] kind = "CLOSING"  -> NormalizedRow("2025-03-31", "Closing Balance", "512.34")
      [] kind = "BADDATE"  -> NormalizedRow("31.03.2025", "REFUND", "5.0")
      [] kind = "NODATE"   -> NormalizedRow("", "FEE", "-1.5")

\* A table without the columns in dropped.
WithoutColumns(table, dropped) ==
    CsvTable(table.columns \ dropped,
             [k \in DOMAIN table.rows |->
                 [c \in table.columns \ dropped |-> table.rows[k][c]]])

CsvTables ==
    {WithoutColumns(CsvTable(AccountColumns, [k \in DOMAIN ks |-> AccountCsvRow(ks[k])]),
                    dropped) :
        ks \in SeqsUpTo(AccountKinds, MaxCsvRows),
        dropped \in {{}, {"Withdrawals"}, {"Deposits"}}}
    \cup
    {CsvTable(NormalizedColumns, [k \in DOMAIN ks |-> NormalizedCsvRow(ks[k])]) :
        ks \in SeqsUpTo(NormalizedKinds, MaxCsvRows)}

CsvInit ==
    /\ pc = "csv"
    /\ doc \in CsvTables
    /\ period = <<>> /\ transactions = <<>>
    /\ GroupIdle /\ NormIdle /\ ClsIdle

\* normalize_csv(input_path) on the file.
CsvNormalize ==
    /\ pc = "csv"
    /\ normalized' = normalize_csv(CSV_PDF_NAME, doc)
    /\ pc' = "normalized"
    /\ UNCHANGED <<doc, period, transactions, groupVars, clsVars>>

\* normalize_csv on the text that the first call returned.
CsvRenormalize ==
    /\ pc = "normalized"
    /\ ~normalized.raised
    /\ doc' = to_csv(normalized.rows)
    /\ normalized' = normalize_csv(CSV_PDF_NAME, doc')
    /\ pc' = "renormalized"
    /\ UNCHANGED <<period, transactions, groupVars, clsVars>>

CsvNext == CsvNormalize \/ CsvRenormalize

SpecCsv == CsvInit /\ [][CsvNext]_vars

\* The rows of the input that normalize_csv keeps: no balance row.
CsvKeptRows ==
    SelectSeq(doc.rows, LAMBDA row : ~ContainsCI(row["Description"], "OPENING BALANCE")
                                     /\ ~ContainsCI(row["Description"], "CLOSING BALANCE"))

\* The amount in cents on one side of an account row; 0 when the column is
\* missing or the cell is empty.
CsvSide(row, column) ==
    IF column \notin DOMAIN row \/ row[column] = "" THEN 0
    ELSE ReadFloat(row[column])[1]

(***************************************************************************)
(* C11: for a table without Amount column, every output row of            *)
(* normalize_csv has Amount = Deposits - Withdrawals, a missing or empty   *)
(* side counting as 0, so a deposit-only row has Amount > 0 and a          *)
(* withdrawal-only row Amount < 0; the output rows have exactly the        *)
(* columns Date, File, Description, Amount.                                *)
(***************************************************************************)
C11_AccountAmount ==
    (pc = "normalized" /\ "Amount" \notin doc.columns /\ ~normalized.raised)
      => /\ Len(normalized.rows) = Len(CsvKeptRows)
         /\ \A k \in DOMAIN normalized.rows :
              LET deposit    == CsvSide(CsvKeptRows[k], "Deposits")
                  withdrawal == CsvSide(CsvKeptRows[k], "Withdrawals")
                  amount     == normalized.rows[k].Amount
              IN  /\ DOMAIN normalized.rows[k] = {"Date", "File", "Description", "Amount"}
                  /\ amount = <<deposit - withdrawal>>
                  /\ (deposit > 0 /\ withdrawal = 0) => amount[1] > 0
                  /\ (withdrawal > 0 /\ deposit = 0) => amount[1] < 0

C11_Witness ==
    /\ pc = "normalized" /\ ~normalized.raised
    /\ doc.columns = AccountColumns
    /\ Len(normalized.rows) = 2
    /\ CsvSide(CsvKeptRows[1], "Deposits") = 0 /\ normalized.rows[1].Amount[1] < 0
    /\ CsvSide(CsvKeptRows[2], "Withdrawals") = 0 /\ normalized.rows[2].Amount[1] > 0

(***************************************************************************)
(* C12: every record that the account-style extractor emits has exactly    *)
(* one of Withdrawals and Deposits populated: never both, and a row with   *)
(* neither (one whose only amount lies in the balance band, for instance)  *)
(* is dropped, not emitted.                                                *)
(***************************************************************************)
C12_ExactlyOneSide ==
    (pc = "extracted" /\ ~transactions.raised)
      => \A k \in DOMAIN transactions.txs :
            (transactions.txs[k].Withdrawals # <<>>)
              # (transactions.txs[k].Deposits # <<>>)

(***************************************************************************)
(* C13: row parsing never raises: whatever the rows, a date token that     *)
(* matches the month/day grammar but names no calendar date included, the  *)
(* extractor emits the row or drops it and goes on; no exception leaves    *)
(* extract.                                                                *)
(***************************************************************************)
C13_ExtractNeverRaises == pc = "extracted" => ~transactions.raised

\* The date cells of the table that normalize_csv reads.
CsvDateOf(row) == row[Norm_date_column(doc.columns)]

(***************************************************************************)
(* C14: when the date of a row matches none of the formats that            *)
(* iso8601_date tries, normalize_csv ends with the "unsupported date       *)
(* format" error; when it returns, no row was dropped for its date and     *)
(* every row carries its own date, converted.                              *)
(***************************************************************************)
C14_DateFailsLoudly ==
    pc = "normalized" =>
        /\ (\E k \in DOMAIN doc.rows : ~iso8601_date(CsvDateOf(doc.rows[k])).ok)
             => (normalized.raised /\ normalized.error = UNSUPPORTED_DATE)
        /\ ~normalized.raised
             => /\ Len(normalized.rows) = Len(CsvKeptRows)
                /\ \A k \in DOMAIN normalized.rows :
                     normalized.rows[k].Date = iso8601_date(CsvDateOf(CsvKeptRows[k])).text

\* The table that normalize_csv read has the normalized columns and ISO
\* dates.
CsvInNormalizedForm ==
    /\ doc.columns = NormalizedColumns
    /\ \A k \in DOMAIN doc.rows :
         /\ StrptimeYMD(doc.rows[k]["Date"], "-").ok
         /\ StrptimeYMD(doc.rows[k]["Date"], "-").text = doc.rows[k]["Date"]

\* A normalized row holds the values of a row of cell texts.
SameValues(row, cells) ==
    /\ row.Date = cells["Date"]
    /\ row.File = cells["File"]
    /\ row.Description = cells["Description"]
    /\ row.Amount = ReadFloat(cells["Amount"])

(***************************************************************************)
(* C15: normalize_csv is idempotent: on a table that is already in         *)
(* normalized form (columns Date, File, Description, Amount, ISO dates) it *)
(* returns the same rows with the same values; in particular a second call *)
(* on the output of a first call returns that output.                      *)
(***************************************************************************)
C15_Idempotent ==
    (pc \in {"normalized", "renormalized"} /\ CsvInNormalizedForm)
      => /\ ~normalized.raised
         /\ Len(normalized.rows) = Len(doc.rows)
         /\ \A k \in DOMAIN normalized.rows : SameValues(normalized.rows[k], doc.rows[k])

\* S: the start of the statement period minus 30 days.
VisaS == MinusDays(period.start_date, POSTING_SKEW_DAYS)

\* The date that the year rule gives to a month and a day.
VisaRuleDate(month, day) ==
    IF DateLess(Date(VisaS.year, month, day), VisaS)
    THEN Date(period.end_date.year, month, day)
    ELSE Date(VisaS.year, month, day)

VisaFollowsRule(parsed) ==
    /\ parsed.tag = "date"
    /\ parsed.date = VisaRuleDate(parsed.date.month, parsed.date.day)
    /\ parsed.date.year \in {VisaS.year, period.end_date.year}
    /\ VisaS.year = period.end_date.year => parsed.date.year = VisaS.year

\* The month/day tokens that stand alone in a span of the page.
VisaTokens ==
    {[month |-> MonthNumber(SubSeq(sp.text, 1, 3)),
      day   |-> DigitsToInt(Keep(sp.text, Digits))] :
        sp \in {doc[1][i] : i \in {j \in DOMAIN doc[1] :
                                      Visa_TRANSACTION_DATE_REGEX(doc[1][j].text)}}}

(***************************************************************************)
(* C16: card-style year resolution.  With S the period start minus 30      *)
(* days, a month/day token resolves to that month and day in the year of S *)
(* unless that date is earlier than S, and then to the same month and day  *)
(* in the year of the period end; so every transaction and posting date    *)
(* has its year in {S.year, end.year}, and a single year when both agree.  *)
(***************************************************************************)
C16_YearResolution ==
    (pc = "extracted" /\ ~transactions.raised)
      => \A k \in DOMAIN transactions.txs :
            /\ VisaFollowsRule(transactions.txs[k].transaction_date)
            /\ VisaFollowsRule(transactions.txs[k].posting_date)
            /\ [month |-> transactions.txs[k].transaction_date.date.month,
                day   |-> transactions.txs[k].transaction_date.date.day] \in VisaTokens

C16_Witness ==
    /\ pc = "extracted" /\ ~transactions.raised
    /\ VisaS.year < period.end_date.year
    /\ \E k \in DOMAIN transactions.txs :
         /\ transactions.txs[k].transaction_date.date.year = VisaS.year
         /\ transactions.txs[k].posting_date.date.year = period.end_date.year
    /\ \E k \in DOMAIN transactions.txs :
         /\ transactions.txs[k].transaction_date.date.month = 3
         /\ transactions.txs[k].transaction_date.date.year = period.end_date.year

(***************************************************************************)
(* bank_statement_processor: Classifier.categorize_transactions and the    *)
(* batched request to the external model                                   *)
(***************************************************************************)
MaxLlmRows == 2        \* rows of the table given to categorize_transactions
MaxLlmLines == 2       \* lines of the external model's response
MaxLlmTraining == 1    \* training rows the classifier has seen

\* text.split("\n")
RECURSIVE SplitLines(_)
SplitLines(text) ==
    IF ~Contains(text, "\n") THEN <<text>>
    ELSE LET p == CHOOSE q \in 1..Len(text) :
                    /\ Ch(text, q) = "\n"
                    /\ \A k \in 1..(q - 1) : Ch(text, k) # "\n"
         IN  <<SubSeq(text, 1, p - 1)>> \o SplitLines(SubSeq(text, p + 1, Len(text)))

\* line.split(":", 1)
SplitColon(line) ==
    LET p == CHOOSE q \in 1..Len(line) :
                /\ Ch(line, q) = ":"
                /\ \A k \in 1..(q - 1) : Ch(line, k) # ":"
    IN  <<SubSeq(line, 1, p - 1), SubSeq(line, p + 1, Len(line))>>

\* int(text): blanks around an optional sign and decimal digits; anything
\* else is a ValueError.
IntBody(text) ==
    IF Len(Strip(text)) > 0 /\ Ch(Strip(text), 1) \in {"+", "-"}
    THEN SubSeq(Strip(text), 2, Len(Strip(text))) ELSE Strip(text)
IntParses(text) == NUMERIC_ONLY_REGEX(IntBody(text))
IntValue(text) ==
    IF Ch(Strip(text), 1) = "-" THEN 0 - DigitsToInt(IntBody(text))
    ELSE DigitsToInt(IntBody(text))

\* result[idx] = category on a dict kept in insertion order
ResultPut(items, idx, category) ==
    IF \E i \in DOMAIN items : items[i].idx = idx
    THEN [i \in DOMAIN items |->
            IF items[i].idx = idx THEN [items[i] EXCEPT !.category = category]
            ELSE items[i]]
    ELSE Append(items, [idx |-> idx, category |-> category])

\* The body of the loop over the response lines.  The entry is stored before
\* the print that indexes the list of transactions, so the IndexError of
\* that print leaves the entry in the result.
Llm_parse_line(items, raw_line) ==
    LET line == Strip(raw_line) IN
    IF ~Contains(line, ":") THEN items
    ELSE IF ~IntParses(SplitColon(line)[1]) THEN items
    ELSE IF Strip(SplitColon(line)[2]) = "" THEN items
    ELSE ResultPut(items, IntValue(SplitColon(line)[1]), Strip(SplitColon(line)[2]))

RECURSIVE Llm_parse_lines(_, _)
Llm_parse_lines(items, lines) ==
    IF lines = <<>> THEN items
    ELSE Llm_parse_lines(Llm_parse_line(items, Head(lines)), Tail(lines))

\* The try block: what client.messages.create gave, turned into a result.
\* "error" is an exception of the client (network, authentication),
\* "empty" a message without content, "no_text" a first content block
\* without a text attribute, "text" a textual answer.
Llm_parse_response(outcome) ==
    IF outcome.kind = "text"
    THEN Llm_parse_lines(<<>>, SplitLines(Strip(outcome.text)))
    ELSE <<>>

\* not api_key: the variable is unset or empty
Llm_has_key(api_key) == api_key # <<>> /\ api_key[1] # ""

\* A variant that does not look at use_llm.
Llm_requests_no_flag(use_llm, api_key, uncategorized_rows) ==
    uncategorized_rows # <<>> /\ Llm_has_key(api_key)

\* categorize_transactions calls infer_categories_batch_with_llm when there
\* are uncategorized rows and use_llm is set; the callee goes on to the
\* request when there is a credential and the list is not empty.
Llm_requests(use_llm, api_key, uncategorized_rows) ==
    use_llm /\ uncategorized_rows # <<>> /\ Llm_has_key(api_key)

\* The loop over _category_training.items(): the values are sets, and
\* seen_categories.add(<a set>) raises TypeError at the first item.
Llm_examples_raise(training) == DOMAIN training # {}

\* The rows whose Category is None after the first pass, as
\* (idx, Description, Amount)
Llm_uncategorized(df) ==
    LET picked == {i \in DOMAIN df : df[i].Category = <<>>}
        F[i \in 0..Len(df)] ==
            IF i = 0 THEN <<>>
            ELSE IF i \in picked
                 THEN Append(F[i - 1], [idx |-> df[i].idx,
                                        Description |-> df[i].Description,
                                        Amount |-> df[i].Amount])
                 ELSE F[i - 1]
    IN  F[Len(df)]

NaNColumns == {"Date", "File", "Description", "Amount"}

\* transactions_df.at[idx, "Category"] = category: a label the index does
\* not hold enlarges the frame by a row whose other cells are NaN.
Df_at_set(df, idx, category) ==
    IF \E i \in DOMAIN df : df[i].idx = idx
    THEN [i \in DOMAIN df |->
            IF df[i].idx = idx THEN [df[i] EXCEPT !.Category = <<category>>]
            ELSE df[i]]
    ELSE Append(df, [idx |-> idx, Date |-> "", File |-> "", Description |-> "",
                     Amount |-> 0, Category |-> <<category>>, nan |-> NaNColumns])

RECURSIVE Llm_merge(_, _)
Llm_merge(df, items) ==
    IF items = <<>> THEN df
    ELSE Llm_merge(Df_at_set(df, Head(items).idx, Head(items).category), Tail(items))

\* get_category(row["Description"], row["Amount"]) as the Category cell
Llm_first_pass_cell(cls, row, scores) ==
    LET answer == Bsp_lookup(cls, NormOf[row.Description], row.Amount, scores)
    IN  IF answer.found THEN <<answer.value>> ELSE <<>>

LlmDescriptions == {"STARBUCKS #1234", "NETFLIX.COM"}
LlmAmounts == {-1250, 4575}
LlmKeys == {<<>>, <<"">>, <<"sk-ant-key">>}
LlmRow(i, d, a) ==
    [idx |-> i, Date |-> "2024-05-01", File |-> "statement.pdf",
     Description |-> d, Amount |-> a, Category |-> <<>>, nan |-> {}]
\* The tables read from a normalized CSV: the index is 0..n-1.
LlmTables ==
    UNION {{[i \in 1..n |-> LlmRow(i - 1, cells[i][1], cells[i][2])] :
                cells \in [1..n -> LlmDescriptions \X LlmAmounts]} :
           n \in 0..MaxLlmRows}

LlmLines ==
    {"0: Expenses / Meals", "1: Expenses / Media ??", "7: Expenses / Meals",
     "-1: Expenses / Meals", "x: Expenses / Meals", "0:", "Sorry, I cannot",
     " 1 : Expenses / Meals "}
RECURSIVE JoinLines(_)
JoinLines(lines) ==
    IF lines = <<>> THEN ""
    ELSE IF Len(lines) = 1 THEN lines[1]
    ELSE Head(lines) \o "\n" \o JoinLines(Tail(lines))
LlmOutcomes ==
    {[kind |-> k, text |-> ""] : k \in {"error", "empty", "no_text"}}
      \cup {[kind |-> "text", text |-> JoinLines(lines)] :
                lines \in SeqsUpTo(LlmLines, MaxLlmLines)}

LlmTrainingRows ==
    [description : ClsTrainDescriptions, amount : ClsTrainAmounts,
     category : ClsCategories]
RECURSIVE LlmTrained(_, _)
LlmTrained(cls, training_rows) ==
    IF training_rows = <<>> THEN cls
    ELSE LlmTrained(Bsp_set_category(cls, Head(training_rows).description,
                                     Head(training_rows).amount,
                                     Head(training_rows).category),
                    Tail(training_rows))

\* The record of a run: the arguments, the table after the first pass, the
\* requests sent to the external model, what the last request gave and the
\* exception that ended the run.
LlmRun(use_llm, api_key) ==
    [use_llm |-> use_llm, api_key |-> api_key, first_pass |-> <<>>,
     requests |-> <<>>, outcome |-> [kind |-> "none", text |-> ""],
     raised |-> FALSE, error |-> ""]

LlmInit ==
    /\ pc = "ready"
    /\ GroupIdle /\ NormIdle
    /\ period = <<>>
    /\ doc \in LlmTables
    /\ transactions = doc
    /\ calls \in SeqsUpTo(LlmTrainingRows, MaxLlmTraining)
    /\ category_training =
           LlmTrained([training |-> EmptyDict, amount_training |-> <<>>], calls).training
    /\ category_amount_training =
           LlmTrained([training |-> EmptyDict, amount_training |-> <<>>],
                      calls).amount_training
    /\ category_lookup = <<>> /\ category_clusters = <<>>
    /\ result \in {LlmRun(u, k) : u \in BOOLEAN, k \in LlmKeys}

\* categorize_transactions up to the end of the first pass; an empty table
\* is returned as it is.
LlmFirstPass ==
    /\ pc = "ready"
    /\ \E scores \in [DOMAIN transactions ->
                        [DOMAIN category_amount_training -> BspScores]] :
          transactions' =
              [i \in DOMAIN transactions |->
                  [transactions[i] EXCEPT
                      !.Category = Llm_first_pass_cell(BspCls, transactions[i],
                                                       scores[i])]]
    /\ result' = [result EXCEPT !.first_pass = transactions']
    /\ pc' = IF transactions = <<>> THEN "done" ELSE "passed"
    /\ UNCHANGED <<groupVars, doc, period, normalized, category_training,
                   category_amount_training, category_lookup,
                   category_clusters, calls>>

\* No request: use_llm is off, nothing is uncategorized, or
\* infer_categories_batch_with_llm returns {} for want of a credential.
LlmSkip ==
    /\ pc = "passed"
    /\ ~Llm_requests(result.use_llm, result.api_key, Llm_uncategorized(transactions))
    /\ pc' = "done"
    /\ UNCHANGED <<groupVars, extractVars, normalized, clsVars>>

\* The category examples are gathered before the try block.
LlmExamplesRaise ==
    /\ pc = "passed"
    /\ Llm_requests(result.use_llm, result.api_key, Llm_uncategorized(transactions))
    /\ Llm_examples_raise(category_training)
    /\ result' = [result EXCEPT !.raised = TRUE,
                                !.error = "TypeError: unhashable type: 'set'"]
    /\ pc' = "raised"
    /\ UNCHANGED <<groupVars, extractVars, normalized, category_training,
                   category_amount_training, category_lookup,
                   category_clusters, calls>>

\* client.messages.create is called with the prompt of all the rows.
LlmRequest ==
    /\ pc = "passed"
    /\ Llm_requests(result.use_llm, result.api_key, Llm_uncategorized(transactions))
    /\ ~Llm_examples_raise(category_training)
    /\ result' = [result EXCEPT
                     !.requests = Append(@, Llm_uncategorized(transactions))]
    /\ pc' = "requested"
    /\ UNCHANGED <<groupVars, extractVars, normalized, category_training,
                   category_amount_training, category_lookup,
                   category_clusters, calls>>

\* The call returns or fails; the parsed result is merged into the table.
LlmRespond ==
    \E outcome \in LlmOutcomes :
        /\ pc = "requested"
        /\ transactions' = Llm_merge(transactions, Llm_parse_response(outcome))
        /\ result' = [result EXCEPT !.outcome = outcome]
        /\ pc' = "done"
        /\ UNCHANGED <<groupVars, doc, period, normalized, category_training,
                       category_amount_training, category_lookup,
                       category_clusters, calls>>

LlmNext == LlmFirstPass \/ LlmSkip \/ LlmExamplesRaise \/ LlmRequest \/ LlmRespond

SpecLlm == LlmInit /\ [][LlmNext]_vars

\* The rows of the first pass that the merged table still holds, cell by cell.
LlmSameCells(a, b) ==
    /\ a.idx = b.idx /\ a.Date = b.Date /\ a.File = b.File
    /\ a.Description = b.Description /\ a.Amount = b.Amount /\ a.nan = b.nan

\* The external-model step has failed: the client raised, or the message
\* had no usable content, or no line of it could be parsed.
LlmFailed ==
    result.outcome.kind \in {"error", "empty", "no_text"}
      \/ (result.outcome.kind = "text" /\ Llm_parse_response(result.outcome) = <<>>)

(***************************************************************************)
(* C17: the external-model step never aborts a categorization run.         *)
(* Whatever the training index holds, whether or not a credential is set   *)
(* and whatever the model gives (a network error, a malformed response, a  *)
(* response naming unknown indices), no exception leaves                   *)
(* categorize_transactions, and when the step fails the table is the one   *)
(* of the first pass, its uncategorized rows still uncategorized.          *)
(***************************************************************************)
C17_LlmNeverAborts ==
    /\ pc # "raised"
    /\ ~result.raised
    /\ (pc = "done" /\ result.requests # <<>> /\ LlmFailed)
          => transactions = result.first_pass

LlmUncategorizedRows == {i \in DOMAIN result.first_pass :
                            result.first_pass[i].Category = <<>>}

\* Every Category cell of the first pass is an answer of get_category for
\* its row.
LlmFirstPassRan ==
    /\ Len(result.first_pass) = Len(doc)
    /\ \A i \in DOMAIN doc :
          /\ LlmSameCells(result.first_pass[i], doc[i])
          /\ \E scores \in [DOMAIN category_amount_training -> BspScores] :
                result.first_pass[i].Category =
                    Llm_first_pass_cell(BspCls, doc[i], scores)

(***************************************************************************)
(* C18: within one categorize_transactions call the external model is      *)
(* requested at most once; the request comes after the first pass has run  *)
(* over every row and carries all the rows that pass left uncategorized;   *)
(* there is no request when use_llm is false, when no credential is set or *)
(* when no row is uncategorized, and the table returned is then the one of *)
(* the first pass.                                                         *)
(***************************************************************************)
C18_SingleBatchedRequest ==
    /\ Len(result.requests) <= 1
    /\ pc = "ready" => result.requests = <<>>
    /\ result.requests # <<>> =>
          /\ pc \in {"requested", "done"}
          /\ LlmFirstPassRan
          /\ Len(result.requests[1]) = Cardinality(LlmUncategorizedRows)
          /\ \A i \in LlmUncategorizedRows :
                \E k \in DOMAIN result.requests[1] :
                    result.requests[1][k] =
                        [idx |-> result.first_pass[i].idx,
                         Description |-> result.first_pass[i].Description,
                         Amount |-> result.first_pass[i].Amount]
    /\ (pc \in {"passed", "done"} /\
        (~result.use_llm \/ result.api_key = <<>> \/ LlmUncategorizedRows = {}))
          => /\ result.requests = <<>>
             /\ transactions = result.first_pass

C18_Witness ==
    /\ pc = "done"
    /\ Len(result.requests) = 1
    /\ Len(result.requests[1]) = MaxLlmRows
    /\ result.outcome.kind = "text"
    /\ \A i \in DOMAIN result.first_pass : transactions[i].Category # <<>>

(***************************************************************************)
(* C19: the results of the model are merged by index only onto rows that   *)
(* the first pass left uncategorized: whatever the response,               *)
(* categorize_transactions does not change the Category of a row that had  *)
(* one, adds or removes no row, and leaves the Date, File, Description and *)
(* Amount of every row as they were.                                       *)
(***************************************************************************)
C19_MergeFrame ==
    pc = "done" =>
        /\ Len(transactions) = Len(doc)
        /\ \A i \in DOMAIN doc \cap DOMAIN transactions :
              /\ LlmSameCells(transactions[i], doc[i])
              /\ result.first_pass[i].Category # <<>>
                    => transactions[i].Category = result.first_pass[i].Category

(***************************************************************************)
(* Statement-type detection and the choice of the extractor                *)
(***************************************************************************)
MaxDetectWords == 2    \* words of the first page's text
HEADER_CHARS == 500    \* page[:500] in extract_account_type

\* The least position where lit (in upper case) starts in s, 0 when none.
FirstCI(s, lit) ==
    IF ContainsCI(s, lit)
    THEN CHOOSE p \in 1..Len(s) :
            /\ LitAtCI(s, p, lit) # 0
            /\ \A q \in 1..(p - 1) : LitAtCI(s, q, lit) = 0
    ELSE 0

\* VISA_MC_REGEX.search(t).group(0).lower(), "" when there is no match
VISA_MC_REGEX(t) ==
    IF FirstCI(t, "VISA") = 0 /\ FirstCI(t, "MASTER CARD") = 0 THEN ""
    ELSE IF FirstCI(t, "MASTER CARD") = 0 THEN "visa"
    ELSE IF FirstCI(t, "VISA") = 0 THEN "master card"
    ELSE IF FirstCI(t, "VISA") < FirstCI(t, "MASTER CARD") THEN "visa"
    ELSE "master card"

\* credit card|cardholder agreement
CREDIT_CARD_REGEX(t) ==
    ContainsCI(t, "CREDIT CARD") \/ ContainsCI(t, "CARDHOLDER AGREEMENT")

\* savings?\s*account|esavings
SAVINGS_REGEX(t) ==
    \/ \E p \in 1..Len(t) :
          LET stem == LitAtCI(t, p, "SAVING")
              s    == IF LitAtCI(t, stem, "S") # 0 THEN LitAtCI(t, stem, "S") ELSE stem
          IN  LitAtCI(t, Star(t, s, Spaces), "ACCOUNT") # 0
    \/ ContainsCI(t, "ESAVINGS")

\* (?:chequing|banking)\s*account
CHEQUING_REGEX(t) ==
    \E p \in 1..Len(t) : \E word \in {"CHEQUING", "BANKING"} :
        LitAtCI(t, Star(t, LitAtCI(t, p, word), Spaces), "ACCOUNT") # 0

\* cheques|debits|deposits
DEBITS_REGEX(t) ==
    ContainsCI(t, "CHEQUES") \/ ContainsCI(t, "DEBITS") \/ ContainsCI(t, "DEPOSITS")

\* The body of the loop over the first two pages, "" when the page decides
\* nothing.
Bsp_account_type_of_page(page) ==
    LET page_text == SubSeq(page, 1, IF Len(page) < HEADER_CHARS THEN Len(page)
                                     ELSE HEADER_CHARS)
    IN  IF VISA_MC_REGEX(page_text) # "" THEN VISA_MC_REGEX(page_text)
        ELSE IF CREDIT_CARD_REGEX(page_text) THEN "credit card"
        ELSE IF SAVINGS_REGEX(page_text) THEN "savings"
        ELSE IF CHEQUING_REGEX(page_text) THEN "chequing"
        ELSE IF DEBITS_REGEX(page_text) THEN "chequing"
        ELSE ""

RECURSIVE Bsp_account_type_loop(_, _)
Bsp_account_type_loop(all_text, i) ==
    IF i > Len(all_text) \/ i > 2 THEN "UNKNOWN"
    ELSE IF Bsp_account_type_of_page(all_text[i]) # ""
         THEN Bsp_account_type_of_page(all_text[i])
    ELSE Bsp_account_type_loop(all_text, i + 1)

extract_account_type(all_text) == Bsp_account_type_loop(all_text, 1)

\* The extractor that bank_statement_processor's extract_to_csv builds.
Bsp_extractor(account_type) ==
    IF account_type \in {"visa", "master card", "credit card"}
    THEN "VisaStatementExtractor" ELSE "ChequingSavingsStatementExtractor"

\* rbc2: detect_statement_type on the text of the first page; an empty text
\* raises ValueError.
detect_statement_type(text) ==
    LET text_lower == Lower(text) IN
    IF text = "" THEN [raised |-> TRUE, type |-> ""]
    ELSE IF Contains(text_lower, "chequing") \/ Contains(text_lower, "checking")
    THEN [raised |-> FALSE, type |-> "chequing"]
    ELSE IF Contains(text_lower, "savings") THEN [raised |-> FALSE, type |-> "savings"]
    ELSE IF Contains(text_lower, "visa") \/ Contains(text_lower, "credit card")
    THEN [raised |-> FALSE, type |-> "visa"]
    ELSE IF Contains(text_lower, "withdrawal") \/ Contains(text_lower, "deposit")
    THEN [raised |-> FALSE, type |-> "chequing"]
    ELSE [raised |-> FALSE, type |-> "visa"]

\* The extractor that rbc2's extract_to_csv builds.
Rbc2_extractor(statement_type) ==
    IF statement_type = "visa"
    THEN "VisaStatementExtractor" ELSE "ChequingSavingsStatementExtractor"

DetectWords ==
    {"Visa", "MASTER CARD", "credit card", "Cardholder Agreement",
     "Savings Account", "eSavings", "savings", "Chequing  account",
     "Banking Account", "checking", "Cheques", "Debits", "Deposits",
     "Withdrawals", "Royal Bank", "Statement"}
\* The text of a first page: some words, or nothing.
DetectFirstPages ==
    {JoinSp(words) : words \in SeqsUpTo(DetectWords, MaxDetectWords)}
DetectSecondPages == {<<>>, <<"">>, <<"Visa">>, <<"Deposits">>}

NoDetection == [implementation |-> "", raised |-> FALSE, type |-> "", extractor |-> ""]

DetectInit ==
    /\ pc = "opened"
    /\ GroupIdle /\ NormIdle
    /\ period = <<>> /\ transactions = <<>>
    /\ \E first \in DetectFirstPages, more \in DetectSecondPages :
          doc = <<first>> \o more
    /\ result = NoDetection
    /\ category_training = <<>> /\ category_amount_training = <<>>
    /\ category_lookup = <<>> /\ category_clusters = <<>>
    /\ calls = <<>>

\* rbc2 extract_to_csv up to the construction of the extractor
Rbc2ExtractToCsv ==
    /\ pc = "opened"
    /\ LET detected == detect_statement_type(doc[1]) IN
          result' = [implementation |-> "rbc2", raised |-> detected.raised,
                     type |-> detected.type,
                     extractor |-> IF detected.raised THEN ""
                                   ELSE Rbc2_extractor(detected.type)]
    /\ pc' = "selected"
    /\ UNCHANGED <<groupVars, extractVars, normalized, category_training,
                   category_amount_training, category_lookup,
                   category_clusters, calls>>

\* bank_statement_processor extract_to_csv up to the construction of the
\* extractor
BspExtractToCsv ==
    /\ pc = "opened"
    /\ result' = [implementation |-> "bank_statement_processor", raised |-> FALSE,
                  type |-> extract_account_type(doc),
                  extractor |-> Bsp_extractor(extract_account_type(doc))]
    /\ pc' = "selected"
    /\ UNCHANGED <<groupVars, extractVars, normalized, category_training,
                   category_amount_training, category_lookup,
                   category_clusters, calls>>

DetectNext == Rbc2ExtractToCsv \/ BspExtractToCsv

SpecDetect == DetectInit /\ [][DetectNext]_vars

\* The markers the two detections look for, in lower case.
CardMarkers == {"visa", "master card", "mastercard", "credit card",
                "cardholder agreement"}
AccountMarkers == {"chequing", "checking", "savings", "banking account"}
ColumnMarkers == {"withdrawal", "deposit", "cheques", "debits"}

\* No page of the document holds a marker of any kind.
NothingMatches ==
    \A i \in DOMAIN doc :
        /\ doc[i] # ""
        /\ \A marker \in CardMarkers \cup AccountMarkers \cup ColumnMarkers :
              ~Contains(Lower(doc[i]), marker)

(***************************************************************************)
(* C20: in both implementations, when the header text holds none of the    *)
(* credit-card markers, none of the chequing/savings markers and none of   *)
(* the withdrawal/deposit column words, the card-style extractor is the    *)
(* one selected; and rbc2's detect_statement_type gives one of 'visa',     *)
(* 'chequing', 'savings' for every text that is not empty.                 *)
(***************************************************************************)
C20_DefaultsToCardStyle ==
    pc = "selected" =>
        /\ NothingMatches => result.extractor = "VisaStatementExtractor"
        /\ (result.implementation = "rbc2" /\ doc[1] # "")
              => /\ ~result.raised
                 /\ result.type \in {"visa", "chequing", "savings"}

(***************************************************************************)
(* Statement period of a card statement                                    *)
(***************************************************************************)
MaxPeriodPages == 2    \* pages of the document whose period is extracted

\* A month token at p: one of the twelve abbreviations in
\* bank_statement_processor, [A-Z]{3} in rbc2 (both case-insensitive).
PeriodMonthAt(t, p, any_letters) ==
    IF Exactly(t, p, Letters, 3) = 0 THEN 0
    ELSE IF any_letters \/ Upper(SubSeq(t, p, p + 2)) \in MonthAbbrs THEN p + 3
    ELSE 0

\* ,?
PeriodComma(t, p) == IF p # 0 /\ LitAt(t, p, ",") # 0 THEN p + 1 ELSE p

\* The choices the regex engine backtracks over, in the order it tries
\* them: digits of the start day, a start year or none, digits of the end
\* day.
PeriodChoices ==
    <<[sd |-> 2, sy |-> TRUE, ed |-> 2],  [sd |-> 2, sy |-> TRUE, ed |-> 1],
      [sd |-> 2, sy |-> FALSE, ed |-> 2], [sd |-> 2, sy |-> FALSE, ed |-> 1],
      [sd |-> 1, sy |-> TRUE, ed |-> 2],  [sd |-> 1, sy |-> TRUE, ed |-> 1],
      [sd |-> 1, sy |-> FALSE, ed |-> 2], [sd |-> 1, sy |-> FALSE, ed |-> 1]>>

\* FROM\s+(MON)\s+(\d{1,2}),?\s*(\d{4})?\s+TO\s+(MON)\s+(\d{1,2}),?\s*(\d{4})
\* at p under one choice: the positions of the groups, end = 0 for no match.
PeriodTry(t, p, any_letters, c) ==
    LET m1 == Plus(t, LitAtCI(t, p, "FROM"), Spaces)
        d1 == Plus(t, PeriodMonthAt(t, m1, any_letters), Spaces)
        a  == PeriodComma(t, Exactly(t, d1, Digits, c.sd))
        y1 == Star(t, a, Spaces)
        b  == IF c.sy THEN Plus(t, Exactly(t, y1, Digits, 4), Spaces)
              ELSE Plus(t, a, Spaces)
        m2 == Plus(t, LitAtCI(t, b, "TO"), Spaces)
        d2 == Plus(t, PeriodMonthAt(t, m2, any_letters), Spaces)
        e  == PeriodComma(t, Exactly(t, d2, Digits, c.ed))
        y2 == Star(t, e, Spaces)
    IN  [end |-> Exactly(t, y2, Digits, 4), m1 |-> m1, d1 |-> d1, y1 |-> y1,
         m2 |-> m2, d2 |-> d2, y2 |-> y2, choice |-> c]

PeriodGroups(t, g) ==
    [start_month_str |-> SubSeq(t, g.m1, g.m1 + 2),
     start_day |-> SubSeq(t, g.d1, g.d1 + g.choice.sd - 1),
     start_year |-> IF g.choice.sy THEN SubSeq(t, g.y1, g.y1 + 3) ELSE "",
     end_month_str |-> SubSeq(t, g.m2, g.m2 + 2),
     end_day |-> SubSeq(t, g.d2, g.d2 + g.choice.ed - 1),
     end_year |-> SubSeq(t, g.y2, g.y2 + 3)]

\* (?:STATEMENT\s+)?FROM...: where FROM stands for a match that starts at p
PeriodFromAt(t, p) ==
    {p, Plus(t, LitAtCI(t, p, "STATEMENT"), Spaces)} \ {0}

PeriodMatchesAt(t, p, any_letters) ==
    \E q \in PeriodFromAt(t, p) : \E k \in DOMAIN PeriodChoices :
        PeriodTry(t, q, any_letters, PeriodChoices[k]).end # 0

\* The first of the choices that matches at q.
PeriodFirstChoice(t, q, any_letters) ==
    CHOOSE k1 \in DOMAIN PeriodChoices :
        /\ PeriodTry(t, q, any_letters, PeriodChoices[k1]).end # 0
        /\ \A k2 \in 1..(k1 - 1) : PeriodTry(t, q, any_letters, PeriodChoices[k2]).end = 0

PeriodGroupsOfChoice(t, q, any_letters, k) ==
    <<PeriodGroups(t, PeriodTry(t, q, any_letters, PeriodChoices[k]))>>

\* The match that starts at p: with the optional STATEMENT when that matches.
PeriodSearchFrom(t, any_letters, matching) ==
    PeriodGroupsOfChoice(t, Max(matching), any_letters,
                         PeriodFirstChoice(t, Max(matching), any_letters))

PeriodSearchAt(t, any_letters, starts) ==
    IF starts = {} THEN <<>>
    ELSE PeriodSearchFrom(t, any_letters,
             {q \in PeriodFromAt(t, Min(starts)) : \E k \in DOMAIN PeriodChoices :
                 PeriodTry(t, q, any_letters, PeriodChoices[k]).end # 0})

\* regex.search(text): the groups of the leftmost match, <<>> for None
PeriodSearch(t, any_letters) ==
    PeriodSearchAt(t, any_letters,
                   {p \in 1..Len(t) : PeriodMatchesAt(t, p, any_letters)})

\* \b(20\d{2})\b at p
YearTokenAt(t, p) ==
    /\ LitAt(t, p, "20") # 0
    /\ Exactly(t, p + 2, Digits, 2) # 0
    /\ p = 1 \/ Ch(t, p - 1) \notin WordChars
    /\ p + 4 > Len(t) \/ Ch(t, p + 4) \notin WordChars

\* re.search(r"\b(20\d{2})\b", text): the year, 0 for None
YearTokenSearch(t) ==
    IF ~\E p \in 1..Len(t) : YearTokenAt(t, p) THEN 0
    ELSE LET p == CHOOSE p1 \in 1..Len(t) :
                    YearTokenAt(t, p1) /\ \A p2 \in 1..(p1 - 1) : ~YearTokenAt(t, p2)
         IN  DigitsToInt(SubSeq(t, p, p + 3))

PeriodRaised(error) ==
    [raised |-> TRUE, error |-> error, absent |-> FALSE,
     start_date |-> Date(0, 0, 0), end_date |-> Date(0, 0, 0)]
PeriodFound(s, e) ==
    [raised |-> FALSE, error |-> "", absent |-> FALSE, start_date |-> s, end_date |-> e]
PeriodAbsent ==
    [raised |-> FALSE, error |-> "", absent |-> TRUE,
     start_date |-> Date(0, 0, 0), end_date |-> Date(0, 0, 0)]

\* rbc2 returns two years; they are held as the first day of each year.
Rbc2Years(start_year, end_year) ==
    PeriodFound(Date(start_year, 1, 1), Date(end_year, 1, 1))

\* rbc2: VisaStatementExtractor._extract_statement_period; now is
\* datetime.now().
Rbc2_extract_statement_period(text, now) ==
    LET match == PeriodSearch(text, TRUE) IN
    IF match # <<>>
    THEN LET g == match[1]
             end_year == DigitsToInt(g.end_year)
         IN  IF Upper(g.start_month_str) \notin MonthAbbrs
                  \/ Upper(g.end_month_str) \notin MonthAbbrs
             THEN PeriodRaised("ValueError: time data does not match format '%b'")
             ELSE IF g.start_year # ""
             THEN Rbc2Years(DigitsToInt(g.start_year), end_year)
             ELSE IF MonthNumber(g.start_month_str) > MonthNumber(g.end_month_str)
             THEN Rbc2Years(end_year - 1, end_year)
             ELSE Rbc2Years(end_year, end_year)
    ELSE IF YearTokenSearch(text) # 0
    THEN Rbc2Years(YearTokenSearch(text), YearTokenSearch(text))
    ELSE Rbc2Years(now.year, now.year)

\* datetime(year, month, day)
DatetimeValid(y, m, d) == y >= 1 /\ ValidDate(y, m, d)

\* The body of the loop of statement_period for a page that matches.
Bsp_period_of_match(g) ==
    LET end_month == MonthNumber(g.end_month_str)
        end_year == DigitsToInt(g.end_year)
        start_month == MonthNumber(g.start_month_str)
        start_year == IF g.start_year # "" THEN DigitsToInt(g.start_year)
                      ELSE IF start_month > end_month THEN end_year - 1
                      ELSE end_year
    IN  IF ~DatetimeValid(end_year, end_month, DigitsToInt(g.end_day))
        THEN PeriodRaised("ValueError: day is out of range for month")
        ELSE IF ~DatetimeValid(start_year, start_month, DigitsToInt(g.start_day))
        THEN PeriodRaised("ValueError: day is out of range for month")
        ELSE PeriodFound(Date(start_year, start_month, DigitsToInt(g.start_day)),
                         Date(end_year, end_month, DigitsToInt(g.end_day)))

\* bank_statement_processor: VisaStatementExtractor.statement_period; the
\* pages without a match are passed over and (None, None) ends the function.
RECURSIVE Bsp_statement_period(_, _)
Bsp_statement_period(all_text, i) ==
    IF i > Len(all_text) THEN PeriodAbsent
    ELSE IF PeriodSearch(all_text[i], FALSE) = <<>>
    THEN Bsp_statement_period(all_text, i + 1)
    ELSE Bsp_period_of_match(PeriodSearch(all_text[i], FALSE)[1])

\* The first statement of extract: start_date - timedelta(days=30)
Bsp_extract_start(p) ==
    IF p.absent
    THEN PeriodRaised("TypeError: unsupported operand type(s) for -: 'NoneType' and 'datetime.timedelta'")
    ELSE PeriodFound(MinusDays(p.start_date, POSTING_SKEW_DAYS), p.end_date)

PeriodTexts ==
    {"STATEMENT FROM FEB 20 TO MAR 20, 2025",
     "From DEC 12, 2024 to JAN 13, 2025",
     "from dec 12 to jan 3,2025 ",
     "FROM FEB 30 TO MAR 20, 2025",
     "FROM XYZ 1 TO ABC 2, 2025",
     "FROM FEB 20 TO MAR 20",
     "Statement date 2024",
     "Points 12025 A2024",
     "Royal Bank",
     ""}
PeriodNows == {Date(2025, 3, 31), Date(2026, 1, 2)}

\* result holds the implementation, the current date and what the period
\* function returned; period holds what extract goes on with.
PeriodInit ==
    /\ pc = "opened"
    /\ GroupIdle /\ NormIdle
    /\ doc \in UNION {[1..n -> PeriodTexts] : n \in 1..MaxPeriodPages}
    /\ period = <<>> /\ transactions = <<>>
    /\ result \in {[implementation |-> "", now |-> now, returned |-> PeriodAbsent] :
                      now \in PeriodNows}
    /\ category_training = <<>> /\ category_amount_training = <<>>
    /\ category_lookup = <<>> /\ category_clusters = <<>>
    /\ calls = <<>>

\* rbc2 extract: the period of the first page's text, then the rows
Rbc2Period ==
    /\ pc = "opened"
    /\ result' = [result EXCEPT !.implementation = "rbc2",
                    !.returned = Rbc2_extract_statement_period(doc[1], result.now)]
    /\ period' = result'.returned
    /\ pc' = IF result'.returned.raised THEN "raised" ELSE "extracting"
    /\ UNCHANGED <<groupVars, doc, transactions, normalized, category_training,
                   category_amount_training, category_lookup,
                   category_clusters, calls>>

\* bank_statement_processor extract_to_csv: statement_period(all_text)
BspPeriod ==
    /\ pc = "opened"
    /\ result' = [result EXCEPT !.implementation = "bank_statement_processor",
                    !.returned = Bsp_statement_period(doc, 1)]
    /\ period' = <<>>
    /\ pc' = IF result'.returned.raised THEN "raised" ELSE "period"
    /\ UNCHANGED <<groupVars, doc, transactions, normalized, category_training,
                   category_amount_training, category_lookup,
                   category_clusters, calls>>

\* bank_statement_processor extract(pdf, start_date, end_date), its start
BspExtractStart ==
    /\ pc = "period"
    /\ period' = Bsp_extract_start(result.returned)
    /\ pc' = IF period'.raised THEN "raised" ELSE "extracting"
    /\ UNCHANGED <<groupVars, doc, transactions, normalized, clsVars>>

PeriodNext == Rbc2Period \/ BspPeriod \/ BspExtractStart

SpecPeriod == PeriodInit /\ [][PeriodNext]_vars

\* The text the implementation looks at holds no start/end pattern: the
\* first page in rbc2, every page in bank_statement_processor.
PeriodPagesRead ==
    IF result.implementation = "rbc2" THEN {1} ELSE DOMAIN doc
PeriodPatternAbsent ==
    \A i \in PeriodPagesRead : PeriodSearch(doc[i], TRUE) = <<>>

\* The year the fallback is to give: that of the first 4-digit year token
\* of the text read, or the current year.
PeriodFallbackYear ==
    IF \E i \in PeriodPagesRead : YearTokenSearch(doc[i]) # 0
    THEN YearTokenSearch(doc[CHOOSE i \in PeriodPagesRead :
                                /\ YearTokenSearch(doc[i]) # 0
                                /\ \A j \in 1..(i - 1) : YearTokenSearch(doc[j]) = 0])
    ELSE result.now.year

(***************************************************************************)
(* C21: period extraction always yields a usable period in both            *)
(* implementations: when the start/end pattern is absent the period comes  *)
(* from a 4-digit year token, and from the current date when there is no   *)
(* such token; the period returned is never absent, and the extract step   *)
(* that follows does not fail for lack of a period.                        *)
(***************************************************************************)
C21_PeriodAlwaysUsable ==
    (pc # "opened" /\ PeriodPatternAbsent)
      => /\ ~result.returned.absent
         /\ pc # "raised"
         /\ result.returned.start_date.year = PeriodFallbackYear
         /\ result.returned.end_date.year = PeriodFallbackYear

(***************************************************************************)
(* StatementExtractor.extract_account_numbers                              *)
(***************************************************************************)
MaxAccountPages == 2    \* pages of the document searched for account numbers

\* SPACE_REGEX.sub(" ", s).strip()
RECURSIVE CollapseSpaces(_)
CollapseSpaces(s) ==
    IF s = "" THEN ""
    ELSE IF Ch(s, 1) \in Spaces
    THEN " " \o CollapseSpaces(SubSeq(s, SkipWhile(s, 1, Spaces), Len(s)))
    ELSE Ch(s, 1) \o CollapseSpaces(SubSeq(s, 2, Len(s)))
CleanNumber(card) == Strip(CollapseSpaces(card))

\* (?:Your\s+)?Account\s+(?:Number|No)[\s:.]+(\d[\d\s\-]+) with Account at
\* p: the span of the group, end = 0 for no match.
AccountNumberAt(t, p) ==
    LET w == Plus(t, LitAtCI(t, p, "ACCOUNT"), Spaces)
        n == IF LitAtCI(t, w, "NUMBER") # 0 THEN LitAtCI(t, w, "NUMBER")
             ELSE LitAtCI(t, w, "NO")
        g == Plus(t, n, Spaces \cup {":", "."})
    IN  [from |-> g,
         end |-> Plus(t, Exactly(t, g, Digits, 1), Digits \cup Spaces \cup {"-"})]

\* (\d\d\d\d\s+(?:[0-9*]{4}\s+){2}\d\d\d\d) at p
CardNumberGroupAt(t, p) ==
    LET a == Plus(t, Exactly(t, p, Digits, 4), Spaces)
        b == Plus(t, Exactly(t, a, Digits \cup {"*"}, 4), Spaces)
        c == Plus(t, Exactly(t, b, Digits \cup {"*"}, 4), Spaces)
    IN  [from |-> p, end |-> Exactly(t, c, Digits, 4)]

\* (?:Card\s+ending|ending\s+in)[\s:]+(\d{4}) at p
CardEndingAt(t, p) ==
    LET a == LitAtCI(t, Plus(t, LitAtCI(t, p, "CARD"), Spaces), "ENDING")
        b == LitAtCI(t, Plus(t, LitAtCI(t, p, "ENDING"), Spaces), "IN")
        g == Plus(t, IF a # 0 THEN a ELSE b, Spaces \cup {":"})
    IN  [from |-> g, end |-> Exactly(t, g, Digits, 4)]

FamilyAt(family, t, p) ==
    CASE family = 1 -> AccountNumberAt(t, p)
      [] family = 2 -> CardNumberGroupAt(t, p)
      [] family = 3 -> CardEndingAt(t, p)

\* regex.findall(page_text): the groups of the matches from p on, left to
\* right and without overlap
RECURSIVE FindAll(_, _, _)
FindAll(family, t, p) ==
    IF p > Len(t) THEN <<>>
    ELSE IF FamilyAt(family, t, p).end = 0 THEN FindAll(family, t, p + 1)
    ELSE <<SubSeq(t, FamilyAt(family, t, p).from, FamilyAt(family, t, p).end - 1)>>
            \o FindAll(family, t, FamilyAt(family, t, p).end)

RECURSIVE CleanAll(_)
CleanAll(cards) ==
    IF cards = <<>> THEN <<>> ELSE <<CleanNumber(Head(cards))>> \o CleanAll(Tail(cards))
RECURSIVE MaskedOnly(_)
MaskedOnly(cards) ==
    IF cards = <<>> THEN <<>>
    ELSE IF Contains(Head(cards), "*")
    THEN <<CleanNumber(Head(cards))>> \o MaskedOnly(Tail(cards))
    ELSE MaskedOnly(Tail(cards))
RECURSIVE EndingAll(_)
EndingAll(cards) ==
    IF cards = <<>> THEN <<>> ELSE <<"****" \o Head(cards)>> \o EndingAll(Tail(cards))

\* The body of the loop over the pages: what one page appends to results.
Account_numbers_of_page(page_text) ==
    IF FindAll(1, page_text, 1) # <<>> THEN CleanAll(FindAll(1, page_text, 1))
    ELSE IF FindAll(2, page_text, 1) # <<>> THEN MaskedOnly(FindAll(2, page_text, 1))
    ELSE EndingAll(FindAll(3, page_text, 1))

RECURSIVE Account_numbers_of_pages(_, _)
Account_numbers_of_pages(all_text, i) ==
    IF i > Len(all_text) THEN <<>>
    ELSE Account_numbers_of_page(all_text[i]) \o Account_numbers_of_pages(all_text, i + 1)

extract_account_numbers(all_text) ==
    IF Account_numbers_of_pages(all_text, 1) = <<>> THEN <<"NOT_FOUND">>
    ELSE Account_numbers_of_pages(all_text, 1)

AccountPageTexts ==
    {"Account Number: 12345-678",
     "Your account no. 5021 7 ",
     "Account Number: 12345-678 or Account No 99 1",
     "4516 07** **** 9998",
     "4516 0712 3456 9998 Card ending in 4390",
     "Card ending: 4390 ending  in 1234",
     "ending in 4390 Account Number 12345-678",
     "Royal Bank",
     ""}

AccountInit ==
    /\ pc = "opened"
    /\ GroupIdle /\ NormIdle
    /\ doc \in SeqsUpTo(AccountPageTexts, MaxAccountPages)
    /\ period = <<>> /\ transactions = <<>>
    /\ result = <<>>
    /\ category_training = <<>> /\ category_amount_training = <<>>
    /\ category_lookup = <<>> /\ category_clusters = <<>>
    /\ calls = <<>>

\* extract_to_csv: account_numbers = list(extract_account_numbers(all_text))
ExtractAccountNumbers ==
    /\ pc = "opened"
    /\ result' = extract_account_numbers(doc)
    /\ pc' = "numbered"
    /\ UNCHANGED <<groupVars, extractVars, normalized, category_training,
                   category_amount_training, category_lookup,
                   category_clusters, calls>>

\* extract_to_csv: account_number = account_numbers[-1]
TakeAccountNumber ==
    /\ pc = "numbered"
    /\ result' = <<result[Len(result)]>>
    /\ pc' = "taken"
    /\ UNCHANGED <<groupVars, extractVars, normalized, category_training,
                   category_amount_training, category_lookup,
                   category_clusters, calls>>

AccountNext == ExtractAccountNumbers \/ TakeAccountNumber

SpecAccount == AccountInit /\ [][AccountNext]_vars

\* The numbers of the first family that matches on a page, as they stand in
\* the page (cleaned of blanks); family 0 when none matches.
FirstFamily(page_text) ==
    IF \E f \in 1..3 : FindAll(f, page_text, 1) # <<>>
    THEN CHOOSE f \in 1..3 : /\ FindAll(f, page_text, 1) # <<>>
                             /\ \A g \in 1..(f - 1) : FindAll(g, page_text, 1) = <<>>
    ELSE 0
PageNumbers(page_text) ==
    LET f == FirstFamily(page_text) IN
    IF f = 0 THEN {}
    ELSE {IF f = 3 THEN "****" \o FindAll(f, page_text, 1)[k]
          ELSE CleanNumber(FindAll(f, page_text, 1)[k]) :
              k \in {j \in DOMAIN FindAll(f, page_text, 1) :
                        f # 2 \/ Contains(FindAll(f, page_text, 1)[j], "*")}}
DocNumbers == UNION {PageNumbers(doc[i]) : i \in DOMAIN doc}

(***************************************************************************)
(* C22: extract_account_numbers.  On each page only the first family that  *)
(* matches contributes (explicit account number, else masked card-number   *)
(* groups, else "ending in NNNN"); the contributions of the pages          *)
(* accumulate; the result holds no entry twice; it is the single sentinel  *)
(* NOT_FOUND exactly when no page contributed a number; no input raises.   *)
(***************************************************************************)
C22_AccountNumbers ==
    pc = "numbered" =>
        /\ DocNumbers # {} => {result[k] : k \in DOMAIN result} = DocNumbers
        /\ DocNumbers = {} <=> result = <<"NOT_FOUND">>
        /\ \A i, j \in DOMAIN result : i # j => result[i] # result[j]

(***************************************************************************)
(* normalize_description on descriptions of several shapes                 *)
(***************************************************************************)
MaxDescWords == 2    \* fragments a description is put together from

DescWords ==
    {"UBER* TRIP", "Online Banking transfer - 3087", "INTERAC e-Transfer fee",
     "7 Drs @ 0.75", "123456", "", "STARBUCKS #1234", "*AB12CD34X",
     "REF 12AB34CD", "  two  blanks ", "caf} shop", "{stanbul"}
Descriptions == {JoinSp(words) : words \in SeqsUpTo(DescWords, MaxDescWords)}

DescInit ==
    /\ pc = "given"
    /\ GroupIdle /\ NormIdle
    /\ doc \in {<<d>> : d \in Descriptions}
    /\ period = <<>> /\ transactions = <<>>
    /\ result = [norm |-> "", again |-> ""]
    /\ category_training = <<>> /\ category_amount_training = <<>>
    /\ category_lookup = <<>> /\ category_clusters = <<>>
    /\ calls = <<>>

\* Classifier.normalize_description(description)
DescNormalize ==
    /\ pc = "given"
    /\ result' = [norm |-> normalize_description(doc[1]), again |-> ""]
    /\ pc' = "normalized"
    /\ UNCHANGED <<groupVars, extractVars, normalized, category_training,
                   category_amount_training, category_lookup,
                   category_clusters, calls>>

\* normalize_description on the string it returned
DescNormalizeAgain ==
    /\ pc = "normalized"
    /\ result' = [result EXCEPT !.again = normalize_description(result.norm)]
    /\ pc' = "renormalized"
    /\ UNCHANGED <<groupVars, extractVars, normalized, category_training,
                   category_amount_training, category_lookup,
                   category_clusters, calls>>

DescNext == DescNormalize \/ DescNormalizeAgain

SpecDesc == DescInit /\ [][DescNext]_vars

\* Lower-case letters a-z in words parted by single spaces.
LettersAndSingleSpaces(s) ==
    /\ \A k \in 1..Len(s) : Ch(s, k) \in LowerSet \cup {" "}
    /\ s # "" => Ch(s, 1) # " " /\ Ch(s, Len(s)) # " "
    /\ \A k \in 1..(Len(s) - 1) : ~(Ch(s, k) = " " /\ Ch(s, k + 1) = " ")

(***************************************************************************)
(* C23: normalize_description gives, for every input string, a string     *)
(* made only of the lower-case letters a-z parted by single spaces, with   *)
(* no space at either end (the empty string for an empty or digits-only    *)
(* description); normalizing a normalized description returns it as it is. *)
(***************************************************************************)
C23_NormalForm ==
    /\ pc \in {"normalized", "renormalized"} =>
          /\ LettersAndSingleSpaces(result.norm)
          /\ (doc[1] = "" \/ NUMERIC_ONLY_REGEX(doc[1])) => result.norm = ""
    /\ pc = "renormalized" => result.again = result.norm

(***************************************************************************)
(* The continuation-merge passes of the two extractors on one page         *)
(***************************************************************************)
MaxMergeRows == 4    \* lines of the page given to a merge pass

MergeVisaKinds == {"TX", "TXFUSED", "CONT", "CONTFAR", "NUM", "HDR", "AMT"}
MergeChqKinds == {"HEAD", "DESC", "DESCFAR", "AMTW", "AMTWFAR", "FULL", "HDR"}

\* result names the extractor; rows holds the rows after the merge pass.
MergeInit ==
    /\ pc = "grouped"
    /\ spans = <<>> /\ rows = <<>>
    /\ \/ /\ result = [extractor |-> "VisaStatementExtractor"]
          /\ doc \in {<<VisaPage(ks, PAGE_TOP)>> :
                         ks \in SeqsUpTo(MergeVisaKinds, MaxMergeRows)}
       \/ /\ result = [extractor |-> "ChequingSavingsStatementExtractor"]
          /\ doc \in {<<ChqPage(ks, PAGE_TOP)>> :
                         ks \in SeqsUpTo(MergeChqKinds, MaxMergeRows)}
    /\ period = <<>> /\ transactions = <<>>
    /\ NormIdle
    /\ category_training = <<>> /\ category_amount_training = <<>>
    /\ category_lookup = <<>> /\ category_clusters = <<>>
    /\ calls = <<>>

\* VisaStatementExtractor.extract: the merge pass over the rows of a page
VisaMergeRows ==
    /\ pc = "grouped"
    /\ result.extractor = "VisaStatementExtractor"
    /\ rows' = Visa_merge_rows(VisaInputRows, 1, <<>>)
    /\ pc' = "merged"
    /\ UNCHANGED <<spans, extractVars, normalized, clsVars>>

\* ChequingSavingsStatementExtractor.extract: the merge pass
ChqMergeRows ==
    /\ pc = "grouped"
    /\ result.extractor = "ChequingSavingsStatementExtractor"
    /\ rows' = Chq_merge_rows(ChqInputRows, 1, <<>>)
    /\ pc' = "merged"
    /\ UNCHANGED <<spans, extractVars, normalized, clsVars>>

MergeNext == VisaMergeRows \/ ChqMergeRows

SpecMerge == MergeInit /\ [][MergeNext]_vars

\* A card-style transaction head: a month/day span first, an amount last.
CardIsHead(row) ==
    Visa_TRANSACTION_DATE_REGEX(row[1].text) /\ Visa_AMOUNT_REGEX(row[Len(row)].text)
\* A row the look-ahead may pass: no leading date, no trailing amount, no
\* TRANSACTION or POSTING keyword.
CardIsConsumable(row) ==
    /\ ~Visa_TRANSACTION_DATE_REGEX(row[1].text)
    /\ ~Visa_AMOUNT_REGEX(row[Len(row)].text)
    /\ ~ContainsCI(RowText(row), "TRANSACTION") /\ ~ContainsCI(RowText(row), "POSTING")
CardIsReference(row) == NUMERIC_ONLY_REGEX(Strip(RowText(row)))
\* The vertical gap between a row and the merge candidate, whose last span
\* is the amount span of the head.
CardGap(head, row) == Abs(row[1].y - head[Len(head)].y)
CardPassed(head, row) ==
    CardIsConsumable(row) /\ (CardIsReference(row) \/ CardGap(head, row) <= 15)

\* The last row that the merge of the head at i takes in or skips.
CardExtent(in, i) ==
    CHOOSE j \in i..Len(in) :
        /\ \A k \in (i + 1)..j : CardPassed(in[i], in[k])
        /\ j = Len(in) \/ ~CardPassed(in[i], in[j + 1])

\* The spans of the rows i+1..j that are no reference rows, in order.
RECURSIVE CardContinuation(_, _, _)
CardContinuation(in, i, j) ==
    IF i >= j THEN <<>>
    ELSE (IF CardIsReference(in[i + 1]) THEN <<>> ELSE in[i + 1])
         \o CardContinuation(in, i + 1, j)

CardMerged(in, i) ==
    SubSeq(in[i], 1, Len(in[i]) - 1) \o CardContinuation(in, i, CardExtent(in, i))
    \o <<in[i][Len(in[i])]>>

\* The input rows that a head's merge took in or skipped.
CardTaken(in) ==
    {k \in DOMAIN in : \E i \in DOMAIN in :
        /\ CardIsHead(in[i]) /\ i < k /\ k <= CardExtent(in, i)
        /\ \A h \in (i + 1)..(k - 1) : ~CardIsHead(in[h])}

(***************************************************************************)
(* C24: card-style continuation merge.  After a transaction head the rows  *)
(* that follow are taken in while they have no leading date span, no       *)
(* trailing amount span and no TRANSACTION/POSTING keyword; a purely       *)
(* numeric reference row is passed over and its text enters no row; a row  *)
(* whose vertical gap to the merge candidate exceeds 15.0 stops the merge  *)
(* and is then a row of its own; the spans of the rows taken in stand      *)
(* before the head's amount span, so the merged row begins with the head's *)
(* date span and ends with the head's amount span.                         *)
(***************************************************************************)
C24_ContinuationMerge ==
    (pc = "merged" /\ result.extractor = "VisaStatementExtractor") =>
        LET in == VisaInputRows IN
        \A i \in DOMAIN in :
            \/ i \in CardTaken(in)
            \/ /\ ~CardIsHead(in[i])
               /\ \E m \in DOMAIN rows : rows[m] = in[i]
            \/ /\ CardIsHead(in[i])
               /\ \E m \in DOMAIN rows :
                     /\ rows[m] = CardMerged(in, i)
                     /\ rows[m][1] = in[i][1]
                     /\ rows[m][Len(rows[m])] = in[i][Len(in[i])]
                     /\ \A k \in (i + 1)..CardExtent(in, i) :
                           CardIsReference(in[k])
                             => \A n \in DOMAIN rows : \A q \in DOMAIN rows[n] :
                                   rows[n][q] \notin {in[k][p] : p \in DOMAIN in[k]}

\* A head takes in a continuation line across a reference row, and the line
\* after it, too far from the head, stays a row of its own.
C24_Witness ==
    /\ pc = "merged" /\ result.extractor = "VisaStatementExtractor"
    /\ Len(VisaInputRows) = 4 /\ Len(rows) = 2
    /\ CardIsHead(VisaInputRows[1])
    /\ CardIsReference(VisaInputRows[2])
    /\ CardExtent(VisaInputRows, 1) = 3
    /\ CardIsConsumable(VisaInputRows[4]) /\ CardGap(VisaInputRows[1], VisaInputRows[4]) > 15
    /\ rows[1] = CardMerged(VisaInputRows, 1)
    /\ Len(rows[1]) = Len(VisaInputRows[1]) + Len(VisaInputRows[3])
    /\ rows[2] = VisaInputRows[4]

\* The rows given to the merge pass of the extractor that ran.
MergeInputRows ==
    IF result.extractor = "VisaStatementExtractor" THEN VisaInputRows ELSE ChqInputRows

SpanSet(row) == {row[p] : p \in DOMAIN row}
\* The output rows that hold a span of the input row.
MergeHolders(row) == {m \in DOMAIN rows : SpanSet(rows[m]) \cap SpanSet(row) # {}}
RECURSIVE TotalLen(_)
TotalLen(rs) == IF rs = <<>> THEN 0 ELSE Len(Head(rs)) + TotalLen(Tail(rs))

\* A reference row that the card-style look-ahead passed over.
MergeSkipped(in, k) ==
    /\ result.extractor = "VisaStatementExtractor"
    /\ CardIsReference(in[k])
    /\ k \in CardTaken(in)

(***************************************************************************)
(* C29: both merge passes end on every finite sequence of rows and account *)
(* for every input row once: each input row lies whole in exactly one      *)
(* output row or, in the card-style pass only, is a reference row that was *)
(* passed over; no span occurs twice, none is lost or invented, and the    *)
(* input order of the rows is kept.                                        *)
(***************************************************************************)
C29_EveryRowOnce ==
    pc = "merged" =>
        LET in == MergeInputRows IN
        /\ \A k \in DOMAIN in :
              IF MergeSkipped(in, k) THEN MergeHolders(in[k]) = {}
              ELSE /\ Cardinality(MergeHolders(in[k])) = 1
                   /\ \A m \in MergeHolders(in[k]) : SpanSet(in[k]) \subseteq SpanSet(rows[m])
        /\ TotalLen(rows)
             = TotalLen(SelectSeq([k \in DOMAIN in |->
                                      IF MergeSkipped(in, k) THEN <<>> ELSE in[k]],
                                  LAMBDA row : TRUE))
        /\ \A m \in DOMAIN rows : \A q \in DOMAIN rows[m] :
              \E k \in DOMAIN in : rows[m][q] \in SpanSet(in[k])
        /\ \A k1, k2 \in DOMAIN in : \A m1 \in MergeHolders(in[k1]) :
              \A m2 \in MergeHolders(in[k2]) : k1 < k2 => m1 <= m2
        /\ \A m \in DOMAIN rows : rows[m] # <<>>

\* Two card-style heads on one page, each taking in the line below it, and a
\* reference row passed over.
C29_Witness ==
    /\ pc = "merged" /\ result.extractor = "VisaStatementExtractor"
    /\ \E k \in DOMAIN VisaInputRows : MergeSkipped(VisaInputRows, k)
    /\ \E m \in DOMAIN rows :
          Cardinality({k \in DOMAIN VisaInputRows : m \in MergeHolders(VisaInputRows[k])}) = 2
    /\ Len(rows) = 2
    /\ \A m \in DOMAIN rows : CardIsHead(rows[m])

\* The rows of the first page after the card-style merge pass.
VisaMergedRows == Visa_merge_rows(VisaInputRows, 1, <<>>)

CardHeaderKeywords ==
    {"TRANSACTION", "POSTING", "ACTIVITY DESCRIPTION", "SUBTOTAL", "MONTHLY ACTIVITY"}

\* The conditions under which a merged row is a transaction.
CardQualifies(row) ==
    /\ Len(row) >= 3
    /\ Visa_TRANSACTION_DATE_REGEX(row[1].text)
    /\ Visa_AMOUNT_REGEX(row[Len(row)].text)
    /\ SECOND_DATE_REGEX(Upper(row[2].text)).ok
    /\ \A w \in CardHeaderKeywords : ~ContainsCI(RowText(row), w)
    /\ ~CARD_NUMBER_SECTION_REGEX(RowText(row))
    /\ ~VisaIsAnnotation(row)

\* The annotation texts of the annotation rows from m on, up to the next
\* transaction row.
RECURSIVE CardAnnotations(_, _)
CardAnnotations(rs, m) ==
    IF m > Len(rs) \/ CardQualifies(rs[m]) THEN ""
    ELSE (IF VisaIsAnnotation(rs[m]) THEN VisaAnnotationText(rs[m]) ELSE "")
         \o CardAnnotations(rs, m + 1)

(***************************************************************************)
(* C25: the records of the card-style extractor are, in order, one per     *)
(* merged row that has three spans or more, a month/day first span, an     *)
(* amount last span, a second span that starts with a month/day, no header *)
(* keyword, no card-number divider and no foreign-currency annotation; no  *)
(* other row gives a record and no row gives two; an annotation row counts *)
(* as an annotation whatever its number of spans, so that its text is      *)
(* appended to the record before it even when it has fewer than 3 spans.   *)
(***************************************************************************)
C25_RecordsFromQualifyingRows ==
    pc = "extracted" =>
        LET rs   == VisaMergedRows
            qual == {m \in DOMAIN rs : CardQualifies(rs[m])}
            Nth(m) == Cardinality({j \in qual : j <= m})
        IN  IF transactions.raised THEN transactions.txs = <<>>
            ELSE /\ Len(transactions.txs) = Cardinality(qual)
                 /\ \A m \in qual :
                       /\ transactions.txs[Nth(m)].amount
                            = AmountCents(rs[m][Len(rs[m])].text) * (-1)
                       /\ transactions.txs[Nth(m)].description
                            = VisaOwnDescription(rs[m]) \o CardAnnotations(rs, m + 1)

\* A transaction row followed, after a wide gap, by an annotation row of two
\* spans: one record, with the annotation at the end of its description.
C25_Witness ==
    /\ pc = "extracted" /\ ~transactions.raised
    /\ Len(VisaMergedRows) = 2
    /\ CardQualifies(VisaMergedRows[1])
    /\ VisaIsAnnotation(VisaMergedRows[2]) /\ Len(VisaMergedRows[2]) < 3
    /\ Len(transactions.txs) = 1
    /\ transactions.txs[1].description
         = VisaOwnDescription(VisaMergedRows[1]) \o VisaAnnotationText(VisaMergedRows[2])

(***************************************************************************)
(* The account-style extractor on statements of one or two pages           *)
(***************************************************************************)
MaxCarryRows == 2    \* lines of each page

CarryKinds == {"HEAD", "FULL", "OPEN", "AMTW"}
CarryPages == {ChqPage(ks, PAGE_TOP) : ks \in SeqsUpTo(CarryKinds, MaxCarryRows)}

CarryInit ==
    /\ pc = "start"
    /\ doc \in {<<p>> : p \in CarryPages} \cup {<<p, q>> : p, q \in CarryPages}
    /\ period = StatementPeriod(Date(2025, 4, 11), Date(2025, 5, 12))
    /\ transactions = Emitted(<<>>)
    /\ GroupIdle /\ NormIdle /\ ClsIdle

CarryNext == ChqExtract

SpecCarry == CarryInit /\ [][CarryNext]_vars

\* The merged rows of the pages k.. of the document, in reading order.
RECURSIVE CarryRowsFrom(_)
CarryRowsFrom(k) ==
    IF k > Len(doc) THEN <<>>
    ELSE Chq_merge_rows(group_spans_by_row(SortByYX(Chq_collect_spans(doc[k])),
                                           Y_TOLERANCE), 1, <<>>)
         \o CarryRowsFrom(k + 1)

\* The spans of a row other than its date span.
CarryRest(row) ==
    IF Chq_has_date(row) THEN SelectSeq(row, LAMBDA sp : sp # Chq_date_span(row))
    ELSE row

\* The resolved date of the row's own date span.
CarryOwnDate(row) ==
    Chq_parse_date(Chq_date_span(row).text, period.start_date, period.end_date)

\* The rows before k that hold a date span.
CarryDatedBefore(rs, k) == {j \in 1..(k - 1) : Chq_has_date(rs[j])}

\* A row that gives a record once it has a date: no header phrase, no bare
\* month name, some description text and some amount.
CarryIsTransaction(row) ==
    /\ ~Chq_is_header(row)
    /\ Strip(Lower(RowText(row))) \notin MONTH_NAMES
    /\ \E p \in DOMAIN CarryRest(row) : Chq_AMOUNT_REGEX(CarryRest(row)[p].text)
    /\ \E p \in DOMAIN CarryRest(row) : ~Chq_AMOUNT_REGEX(CarryRest(row)[p].text)

CarryDescription(row) ==
    JoinSp(RowTexts(SelectSeq(CarryRest(row), LAMBDA sp : ~Chq_AMOUNT_REGEX(sp.text))))

(***************************************************************************)
(* C26: account-style carried date.  A transaction row without a date span *)
(* of its own gives a record dated with the resolved date of the nearest   *)
(* row before it, on its page or an earlier one, that holds a date span; a *)
(* row with a date span of its own gives a record with that date; a row    *)
(* without a date span that comes before every date span of the document   *)
(* gives no record.                                                        *)
(***************************************************************************)
C26_CarriedDate ==
    pc = "extracted" =>
        LET rs   == CarryRowsFrom(1)
            emit == {k \in DOMAIN rs :
                        /\ CarryIsTransaction(rs[k])
                        /\ Chq_has_date(rs[k]) \/ CarryDatedBefore(rs, k) # {}}
            Nth(k) == Cardinality({j \in emit : j <= k})
        IN  IF transactions.raised THEN transactions.txs = <<>>
            ELSE /\ Len(transactions.txs) = Cardinality(emit)
                 /\ \A k \in emit :
                       /\ transactions.txs[Nth(k)].Description = CarryDescription(rs[k])
                       /\ transactions.txs[Nth(k)].Date
                            = IF Chq_has_date(rs[k]) THEN CarryOwnDate(rs[k])
                              ELSE CarryOwnDate(rs[Max(CarryDatedBefore(rs, k))])

\* Two pages: an undated amount row before any date, a dated row, and on the
\* second page an undated amount row that takes the date of the first page.
C26_Witness ==
    /\ pc = "extracted" /\ ~transactions.raised
    /\ Len(doc) = 2
    /\ LET rs == CarryRowsFrom(1)
       IN  /\ Len(rs) = 3
           /\ \A k \in DOMAIN rs : CarryIsTransaction(rs[k])
           /\ ~Chq_has_date(rs[1]) /\ Chq_has_date(rs[2]) /\ ~Chq_has_date(rs[3])
           /\ rs[3][1].y < rs[2][1].y
           /\ Len(transactions.txs) = 2
           /\ transactions.txs[1].Date = CarryOwnDate(rs[2])
           /\ transactions.txs[2].Date = CarryOwnDate(rs[2])
           /\ transactions.txs[2].Description = CarryDescription(rs[3])

(***************************************************************************)
(* The account-style extractor: header label positions and amount columns  *)
(***************************************************************************)
MaxColumnRows == 3   \* transaction lines under the header line

WITHDRAWAL_COL_X == 316
DEPOSIT_COL_X == 418
BALANCE_COL_X == 520

\* The lines of a page: the spans that share a y, in reading order.
RECURSIVE PageLines(_)
PageLines(page) ==
    IF page = <<>> THEN <<>>
    ELSE <<SelectSeq(page, LAMBDA sp : sp.y = page[1].y)>>
         \o PageLines(SelectSeq(page, LAMBDA sp : sp.y # page[1].y))

RECURSIVE Concat(_)
Concat(ts) == IF ts = <<>> THEN "" ELSE Head(ts) \o Concat(Tail(ts))

\* "for span in line" of the header detection; cols holds the three
\* positions, <<>> for None.
RECURSIVE Chq_detect_spans(_, _, _)
Chq_detect_spans(cols, line, k) ==
    IF k > Len(line) THEN cols
    ELSE LET text == line[k].text
         IN  Chq_detect_spans(
                 IF Contains(text, "Cheques") \/ Contains(text, "Debits")
                 THEN [cols EXCEPT !.withdrawal_col_x = <<line[k].x>>]
                 ELSE IF Contains(text, "Deposits") \/ Contains(text, "Credits")
                 THEN [cols EXCEPT !.deposit_col_x = <<line[k].x>>]
                 ELSE IF Contains(text, "Balance")
                 THEN [cols EXCEPT !.balance_col_x = <<line[k].x>>]
                 ELSE cols,
                 line, k + 1)

RECURSIVE Chq_detect_lines(_, _, _)
Chq_detect_lines(cols, lines, k) ==
    IF k > Len(lines) THEN cols
    ELSE LET line_text == Concat(RowTexts(lines[k]))
         IN  Chq_detect_lines(
                 IF \/ Contains(line_text, "Cheques & Debits")
                    \/ Contains(line_text, "Deposits & Credits")
                 THEN Chq_detect_spans(cols, lines[k], 1)
                 ELSE cols,
                 lines, k + 1)

\* The column positions after the detection on the first page and the
\* fallbacks; detected tells whether a label was found.
Chq_detect_columns(first_page) ==
    LET cols == Chq_detect_lines([withdrawal_col_x |-> <<>>, deposit_col_x |-> <<>>,
                                  balance_col_x |-> <<>>], PageLines(first_page), 1)
        Or(v, fallback) == IF v = <<>> THEN fallback ELSE v[1]
    IN  [detected |-> cols.withdrawal_col_x # <<>> \/ cols.deposit_col_x # <<>>
                      \/ cols.balance_col_x # <<>>,
         withdrawal_col_x |-> Or(cols.withdrawal_col_x, WITHDRAWAL_COL_X),
         deposit_col_x |-> Or(cols.deposit_col_x, DEPOSIT_COL_X),
         balance_col_x |-> Or(cols.balance_col_x, BALANCE_COL_X)]

\* The header line with its three labels at the given positions.
ColumnHeader(w, d, b) ==
    <<Cell("Date", 50), Cell("Description", 100), Cell("Cheques & Debits ($)", w),
      Cell("Deposits & Credits ($)", d), Cell("Balance ($)", b)>>
ColumnHeaders == {<<>>, ColumnHeader(330, 430, 520), ColumnHeader(200, 300, 400)}

\* A dated transaction line with one amount at x.
ColumnRow(x) == <<Cell("01 May", 50), Cell("Payment", 100), Cell("45.10", x)>>
ColumnXs == {250, 350, 450, 550}

RECURSIVE ColumnRows(_, _)
ColumnRows(xs, y) ==
    IF xs = <<>> THEN <<>>
    ELSE PlaceRow(ColumnRow(Head(xs)), y + ROW_PITCH) \o ColumnRows(Tail(xs), y + ROW_PITCH)

ColumnsInit ==
    /\ pc = "start"
    /\ doc \in {<<PlaceRow(h, PAGE_TOP) \o ColumnRows(xs, PAGE_TOP)>> :
                   h \in ColumnHeaders, xs \in SeqsUpTo(ColumnXs, MaxColumnRows)}
    /\ period = StatementPeriod(Date(2025, 4, 11), Date(2025, 5, 12))
    /\ transactions = Emitted(<<>>)
    /\ GroupIdle /\ NormIdle
    /\ category_training = <<>> /\ category_amount_training = <<>>
    /\ category_lookup = <<>> /\ category_clusters = <<>>
    /\ calls = <<>>
    /\ result = <<>>

\* ChequingSavingsStatementExtractor.extract, with the column positions it
\* detects kept in result.
ChqExtractColumns ==
    /\ pc = "start"
    /\ result' = Chq_detect_columns(doc[1])
    /\ transactions' = Chq_extract(doc, period.start_date, period.end_date)
    /\ pc' = "extracted"
    /\ UNCHANGED <<doc, period, groupVars, normalized, category_training,
                   category_amount_training, category_lookup, category_clusters, calls>>

ColumnsNext == ChqExtractColumns

SpecColumns == ColumnsInit /\ [][ColumnsNext]_vars

\* The transaction lines of the page and the x of their amount.
ColumnLines == SelectSeq(PageLines(doc[1]), LAMBDA line : ~Chq_is_header(line))
ColumnAmountX(line) == line[Len(line)].x

\* The column of an amount at x, for the given two band boundaries.
ColumnOf(x, withdrawal_deposit, deposit_balance) ==
    IF x < withdrawal_deposit THEN "Withdrawals"
    ELSE IF x < deposit_balance THEN "Deposits"
    ELSE "Balance"

\* The columns of a record that hold an amount.
ColumnsFilled(tx) == {c \in {"Withdrawals", "Deposits", "Balance"} : tx[c] # <<>>}

(***************************************************************************)
(* C27: an account-style amount goes to Withdrawals, Deposits or Balance   *)
(* by its x.  When header labels were found on the first page the bands    *)
(* follow them: an amount left of the Deposits label is a withdrawal, one  *)
(* from the Deposits label up to the Balance label is a deposit, one at or *)
(* right of the Balance label is a balance.  Without labels the bands are  *)
(* x < 400, 400 <= x < 500 and x >= 500.                                   *)
(***************************************************************************)
C27_BandsFollowLabels ==
    pc = "extracted" =>
        /\ ~transactions.raised
        /\ Len(transactions.txs) = Len(ColumnLines)
        /\ \A k \in DOMAIN transactions.txs :
              ColumnsFilled(transactions.txs[k])
                = {IF result.detected
                   THEN ColumnOf(ColumnAmountX(ColumnLines[k]),
                                 result.deposit_col_x, result.balance_col_x)
                   ELSE ColumnOf(ColumnAmountX(ColumnLines[k]),
                                 WITHDRAWAL_DEPOSIT_BOUNDARY, DEPOSIT_BALANCE_BOUNDARY)}

\* The training rows whose description normalizes like the query's and whose
\* amount rounds to the same one-figure value.
BspCoarseTwins ==
    {i \in DOMAIN calls :
        /\ NormOf[calls[i].description] = BspQueryNorm
        /\ Round1(calls[i].amount) = Round1(result.amount)}

(***************************************************************************)
(* C28: the coarse-amount key that get_category builds for a query (d, a)  *)
(* is the key that set_category stored for a training row (d, a') whenever *)
(* a and a' round to the same one-figure value, so the fuzzy stage         *)
(* compares the query with an identical string.                            *)
(***************************************************************************)
C28_SameCoarseKey ==
    pc = "answered" =>
        \A i \in BspCoarseTwins :
            /\ Bsp_stored_coarse_key(calls[i].amount, NormOf[calls[i].description])
                 = Bsp_query_coarse_key(result.amount, BspQueryNorm)
            /\ \E n \in DOMAIN category_amount_training :
                  category_amount_training[n].key
                    = Bsp_query_coarse_key(result.amount, BspQueryNorm)

\* The classifier after set_category on the rows of cs from k on.
RECURSIVE BspTrainedFrom(_, _, _)
BspTrainedFrom(cls, cs, k) ==
    IF k > Len(cs) THEN cls
    ELSE BspTrainedFrom(
             [training |-> Bsp_trained(cls.training, NormOf[cs[k].description],
                                       cs[k].amount, cs[k].category),
              amount_training |-> Bsp_amount_trained(cls.amount_training,
                                       NormOf[cs[k].description], cs[k].amount,
                                       cs[k].category)],
             cs, k + 1)
BspTrainedWith(cs) ==
    BspTrainedFrom([training |-> EmptyDict, amount_training |-> <<>>], cs, 1)

\* The insertion orders of the training rows.
BspOrders ==
    {p \in [DOMAIN calls -> DOMAIN calls] : \A i, j \in DOMAIN calls : p[i] = p[j] => i = j}
BspReordered(p) == [i \in DOMAIN calls |-> calls[p[i]]]

\* fuzz.WRatio(key, target_key) depends on the two strings only: sc gives the
\* score of every stored key, whatever its place in the dictionary.
BspStoredKeys == {category_amount_training[n].key : n \in DOMAIN category_amount_training}
BspScoresOf(cls, sc) == [n \in DOMAIN cls.amount_training |-> sc[cls.amount_training[n].key]]

BspAnswer(cls, sc) ==
    Bsp_lookup(cls, BspQueryNorm, result.amount, BspScoresOf(cls, sc))

(***************************************************************************)
(* C30: the answer of get_category depends on the set of training rows     *)
(* only, not on the order in which set_category inserted them: with the    *)
(* same scores for the same stored keys, a query gets the same answer      *)
(* after every insertion order of the rows, also when several fuzzy        *)
(* candidates with different categories share the best score.              *)
(***************************************************************************)
C30_OrderIndependent ==
    pc = "answered" =>
        \A sc \in [BspStoredKeys -> BspScores] :
            result.answer = BspAnswer(BspCls, sc)
              => \A p \in BspOrders :
                    LET other == BspAnswer(BspTrainedWith(BspReordered(p)), sc)
                    IN  /\ other.found = result.answer.found
                        /\ other.value = result.answer.value
                        /\ other.stage = result.answer.stage

====
